---- MODULE Spec2Model ----
(***************************************************************************)
(* Config::Node (src/headers/config-cpp/node.h): the recursive variant     *)
(* value of config-cpp and its accessors, subscripts, Push and conversions. *)
(* A Node is modelled by value: a record whose `type` names the variant    *)
(* alternative that value_ holds and whose second field is the payload.    *)
(* A Node& obtained by a chain of mutable subscripts from the root is the  *)
(* path `cur` of the subscripts taken.                                     *)
(***************************************************************************)
EXTENDS Integers, Sequences, FiniteSets, TLC

\* Largest number of descendants the root may own.
MaxNodes == 2

\* Field names used as keys.
Keys == {"a", "b"}

(***************************************************************************)
(* Node::Value: std::variant<Null, String, Boolean, Integer, Floating,     *)
(* Sequence, Object>.  Floating payloads are written in tenths (15 is 1.5).*)
(***************************************************************************)
NullNode == [type |-> "Null"]
StringNode(s) == [type |-> "String", string |-> s]
BooleanNode(b) == [type |-> "Boolean", boolean |-> b]
IntegerNode(i) == [type |-> "Integer", integer |-> i]
FloatingNode(f) == [type |-> "Floating", floating |-> f]
SequenceNode(s) == [type |-> "Sequence", sequence |-> s]
ObjectNode(o) == [type |-> "Object", object |-> o]

\* Object(): the empty std::unordered_map<std::string, Node>.
EmptyObject == [k \in {} |-> NullNode]

\* The values a caller constructs a Node from (one per constructor).
BuiltinValues ==
  { StringNode("hi"), BooleanNode(TRUE), IntegerNode(1), IntegerNode(42),
    FloatingNode(15), SequenceNode(<<>>), ObjectNode(EmptyObject) }

NodeValues == {NullNode} \cup BuiltinValues

\* IsNull() .. IsObject(): std::holds_alternative on value_.
IsNull(n) == n.type = "Null"
IsString(n) == n.type = "String"
IsBoolean(n) == n.type = "Boolean"
IsInteger(n) == n.type = "Integer"
IsFloating(n) == n.type = "Floating"
IsSequence(n) == n.type = "Sequence"
IsObject(n) == n.type = "Object"

\* The payload of a node, whatever alternative it holds.
Payload(n) ==
  CASE IsString(n) -> n.string
    [] IsBoolean(n) -> n.boolean
    [] IsInteger(n) -> n.integer
    [] IsFloating(n) -> n.floating
    [] IsSequence(n) -> n.sequence
    [] IsObject(n) -> n.object
    [] OTHER -> "monostate"

\* trait::IsString<T> .. trait::IsObject<T>.
TraitIsString(T) == T \in {"std::string", "std::string_view", "const char*"}
TraitIsBoolean(T) == T = "bool"
TraitIsInteger(T) ==
  T \in {"bool", "char", "int", "std::int64_t", "std::uint64_t", "std::int8_t",
         "std::uint8_t", "std::int16_t", "std::uint16_t", "std::uint32_t"}
TraitIsFloating(T) == T \in {"float", "double"}
TraitIsSequence(T) == T = "Node::Sequence"
TraitIsObject(T) == T = "Node::Object"

(***************************************************************************)
(* Outcome of a call: the exception that left it (NoFault when it          *)
(* returned), the node as the call left it, and the returned value.        *)
(***************************************************************************)
NoFault == "None"
CannotAccessField == "NodeError: Cannot access field on non-object node"
CannotPush == "NodeError: Cannot push to non-sequence node"
NotASequence == "NodeError: Cannot access node. Node is not a sequence"
IndexOutOfBounds == "NodeError: Index out of bounds"
ConversionFailed == "NodeError: Conversion failed"
StdOutOfRange == "std::out_of_range"
IllFormed == "ill-formed"

\* No call is being observed.
Idle ==
  [op |-> "none", at |-> <<>>, arg |-> "none", fault |-> NoFault,
   ret |-> "none"]

Return(n, value) == [fault |-> NoFault, node |-> n, ret |-> value]
Throw(n, exception) == [fault |-> exception, node |-> n, ret |-> "none"]

\* Node::As<T>(self): std::get<T>(self.value_), any exception rethrown as
\* NodeError("Conversion {} -> {} failed.").
As(n, T) ==
  IF n.type = T THEN Return(n, Payload(n)) ELSE Throw(n, ConversionFailed)


(***************************************************************************)
(* std::unordered_map<std::string, Node>.                                  *)
(***************************************************************************)
\* unordered_map::operator[](key): inserts a value-initialised Node() when
\* the key is absent, and leaves every other entry alone.
MapSubscript(o, field) ==
  [k \in DOMAIN o \cup {field} |-> IF k \in DOMAIN o THEN o[k] ELSE NullNode]

\* unordered_map::count(key).
MapCount(o, field) == Cardinality({k \in DOMAIN o : k = field})

(***************************************************************************)
(* std::uint64_t, as four 16-bit limbs, most significant first.            *)
(***************************************************************************)
Limb == 2 ^ 16
IntMin == -2147483647 - 1

\* Conversion of an int argument to std::uint64_t (sign extension), as at
\* the call SubscriptOperator(*this, index).
ToUint64(i) ==
  LET high == IF i < 0 THEN Limb - 1 ELSE 0
  IN  << high, high, (i \div Limb) % Limb, i % Limb >>

\* index >= length on std::uint64_t.
RECURSIVE Uint64GreaterEq(_, _)
Uint64GreaterEq(x, y) ==
  IF x = <<>> THEN TRUE
  ELSE IF Head(x) # Head(y) THEN Head(x) > Head(y)
  ELSE Uint64GreaterEq(Tail(x), Tail(y))

(***************************************************************************)
(* Node member functions, each as the outcome of one call on node n.       *)
(***************************************************************************)
\* Variant: only a Sequence has a length.
LengthOfSequenceOnly(n) ==
  IF IsSequence(n) THEN Return(n, Len(n.sequence)) ELSE Return(n, 0)

\* Node::Length().
Length(n) ==
  IF IsSequence(n)
    THEN LET s == As(n, "Sequence")
         IN  IF s.fault # NoFault THEN s ELSE Return(n, Len(s.ret))
  ELSE IF IsObject(n)
    THEN LET o == As(n, "Object")
         IN  IF o.fault # NoFault THEN o
             ELSE Return(n, Cardinality(DOMAIN o.ret))
  ELSE Return(n, 0)

\* Variant: the variant check is missing.
SubscriptNoTypeCheck(n, field) ==
  LET m == IF IsObject(n) THEN n ELSE ObjectNode(EmptyObject)
  IN  Return(ObjectNode(MapSubscript(m.object, field)), [k |-> field])

\* Variant: the node is made an Object before its variant is checked.
SubscriptVivifyingFirst(n, field) ==
  IF ~IsObject(n) /\ ~IsNull(n)
    THEN Throw(ObjectNode(EmptyObject), CannotAccessField)
  ELSE Return(ObjectNode(MapSubscript((IF IsNull(n) THEN ObjectNode(EmptyObject)
                                       ELSE n).object, field)),
              [k |-> field])

\* Node &operator[](const char *field): the returned reference is the
\* subscript step to the child.
Subscript(n, field) ==
  IF ~IsObject(n) /\ ~IsNull(n) THEN Throw(n, CannotAccessField)
  ELSE LET m == IF IsNull(n) THEN ObjectNode(EmptyObject) ELSE n
           o == As(m, "Object")
       IN  IF o.fault # NoFault THEN o
           ELSE Return(ObjectNode(MapSubscript(o.ret, field)), [k |-> field])

\* Variant: the lookup is operator[] of the map, which inserts.
ConstSubscriptInserting(n, field) ==
  LET o == As(n, "Object")
  IN  IF o.fault # NoFault THEN o
      ELSE Return(ObjectNode(MapSubscript(o.ret, field)),
                  MapSubscript(o.ret, field)[field])

\* Variant: a node that is no Object is looked up like an empty map.
ConstSubscriptLenient(n, field) ==
  IF ~IsObject(n) \/ MapCount(n.object, field) = 0
    THEN Throw(n, StdOutOfRange)
  ELSE Return(n, n.object[field])

\* const Node &operator[](const char *field) const: AsObject().at(field).
ConstSubscript(n, field) ==
  LET o == As(n, "Object")
  IN  IF o.fault # NoFault THEN o
      ELSE IF MapCount(o.ret, field) = 0 THEN Throw(n, StdOutOfRange)
      ELSE Return(n, o.ret[field])

\* Variant: the index parameter is an int, compared as a signed value.
SubscriptOperatorSigned(n, index) ==
  IF ~IsSequence(n) THEN Throw(n, NotASequence)
  ELSE IF index >= Len(n.sequence) THEN Throw(n, IndexOutOfBounds)
  ELSE Return(n, [i |-> index])

\* Node::SubscriptOperator(self, std::uint64_t index), reached from
\* operator[](int index) and its const twin.
SubscriptOperator(n, index) ==
  IF ~IsSequence(n) THEN Throw(n, NotASequence)
  ELSE LET length == Length(n)
       IN  IF length.fault # NoFault THEN length
           ELSE IF Uint64GreaterEq(ToUint64(index), ToUint64(length.ret))
             THEN Throw(n, IndexOutOfBounds)
           ELSE Return(n, [i |-> index])

\* Variant: the IsObject() guard is missing.
ContainsNoTypeCheck(n, field) ==
  LET o == As(n, "Object")
  IN  IF o.fault # NoFault THEN o ELSE Return(n, MapCount(o.ret, field) > 0)

\* Node::Contains(const char *field).
Contains(n, field) ==
  IF ~IsObject(n) THEN Return(n, FALSE)
  ELSE LET o == As(n, "Object")
       IN  IF o.fault # NoFault THEN o ELSE Return(n, MapCount(o.ret, field) > 0)

\* Variant: the Sequence is reset before the element is appended.
PushReplacing(n, x) ==
  IF ~IsSequence(n) /\ ~IsNull(n) THEN Throw(n, CannotPush)
  ELSE Return(SequenceNode(<<x>>), "void")

\* Node::Push(const Node &node).
Push(n, x) ==
  IF ~IsSequence(n) /\ ~IsNull(n) THEN Throw(n, CannotPush)
  ELSE LET m == IF IsNull(n) THEN SequenceNode(<<>>) ELSE n
           s == As(m, "Sequence")
       IN  IF s.fault # NoFault THEN s
           ELSE Return(SequenceNode(Append(s.ret, x)), "void")

\* Variant: an integral argument selects the Boolean alternative.
AssignIntegralAsBoolean(n, v) ==
  IF IsInteger(v) THEN Return(BooleanNode(v.integer # 0), "*this")
  ELSE Return(v, "*this")

\* Node &operator=(T): value_ = T(value); returns *this.
Assign(n, v) == Return(v, "*this")

\* NodeError("Failed to determine node type.").
UndeterminedType == "NodeError: Failed to determine node type"

\* Variant: the chain of tests has no test for Floating.
TypeWithoutFloating(n) ==
  IF IsNull(n) THEN Return(n, "Null")
  ELSE IF IsString(n) THEN Return(n, "String")
  ELSE IF IsBoolean(n) THEN Return(n, "Boolean")
  ELSE IF IsInteger(n) THEN Return(n, "Integer")
  ELSE IF IsSequence(n) THEN Return(n, "Sequence")
  ELSE IF IsObject(n) THEN Return(n, "Object")
  ELSE Throw(n, UndeterminedType)

\* Node::Type(): the first Is*() test that holds names the NodeType; when
\* none holds it throws.
Type(n) ==
  IF IsNull(n) THEN Return(n, "Null")
  ELSE IF IsString(n) THEN Return(n, "String")
  ELSE IF IsBoolean(n) THEN Return(n, "Boolean")
  ELSE IF IsInteger(n) THEN Return(n, "Integer")
  ELSE IF IsFloating(n) THEN Return(n, "Floating")
  ELSE IF IsSequence(n) THEN Return(n, "Sequence")
  ELSE IF IsObject(n) THEN Return(n, "Object")
  ELSE Throw(n, UndeterminedType)

\* Variant: the copy has the source's elements and keys, each child a
\* default Node.
CopyTopLevel(n) ==
  IF IsSequence(n) THEN SequenceNode([i \in DOMAIN n.sequence |-> NullNode])
  ELSE IF IsObject(n) THEN ObjectNode([k \in DOMAIN n.object |-> NullNode])
  ELSE n

\* Node(const Node &) and operator=(const Node &), both implicit: value_ is
\* copied, and the std::vector or std::unordered_map it holds copies every
\* element in turn.
RECURSIVE Copy(_)
Copy(n) ==
  IF IsSequence(n)
    THEN SequenceNode([i \in DOMAIN n.sequence |-> Copy(n.sequence[i])])
  ELSE IF IsObject(n)
    THEN ObjectNode([k \in DOMAIN n.object |-> Copy(n.object[k])])
  ELSE n

(***************************************************************************)
(* Conversion protocol: the trait predicates and To<T>() / Is<T>() /       *)
(* ValueOr<T>().  A target type T is named by its C++ spelling.            *)
(***************************************************************************)
\* The target types callers instantiate the templates with; UserType is a
\* class with no converter.
CppTypes ==
  { "std::string", "bool", "int", "double", "Node::Sequence", "Node::Object",
    "UserType" }

\* Point is a class with a custom converter pair and no built-in category.
ConverterTypes == {"Point"}

\* The types Is<T>() is asked about.
IsTypes ==
  CppTypes \cup ConverterTypes \cup
    { "const char*", "std::string_view", "char", "std::int64_t",
      "std::uint64_t", "float" }

\* Whether T satisfies the constraint of the To<> overload that returns
\* As<alternative>().
Satisfies(T, alternative) ==
  CASE alternative = "String" -> TraitIsString(T)
    [] alternative = "Boolean" -> TraitIsBoolean(T)
    [] alternative = "Integer" -> TraitIsInteger(T)
    [] alternative = "Floating" -> TraitIsFloating(T)
    [] alternative = "Sequence" -> TraitIsSequence(T)
    [] alternative = "Object" -> TraitIsObject(T)

\* The built-in To<> overloads, each named by the alternative it reads.
ToOverloads ==
  {"String", "Boolean", "Integer", "Floating", "Sequence", "Object"}

\* Node::Is<T>(): the first `if constexpr` of the chain that T enters
\* returns; a T that enters none yields false.
Is(n, T) ==
  IF TraitIsString(T) THEN IsString(n)
  ELSE IF TraitIsBoolean(T) THEN IsBoolean(n)
  ELSE IF TraitIsInteger(T) THEN IsInteger(n)
  ELSE IF TraitIsFloating(T) THEN IsFloating(n)
  ELSE IF TraitIsSequence(T) THEN IsSequence(n)
  ELSE IF TraitIsObject(T) THEN IsObject(n)
  ELSE FALSE

\* Node::To<T>() const: overload resolution among the constrained member
\* templates.  The constraints are unrelated atomic constraints, so a T
\* that satisfies two of them makes the call ambiguous, and a T that
\* satisfies none has no viable overload: either way the call is ill-formed.
To(n, T) ==
  LET viable == {a \in ToOverloads : Satisfies(T, a)}
  IN  IF Cardinality(viable) # 1 THEN Throw(n, IllFormed)
      ELSE As(n, CHOOSE a \in viable : TRUE)

\* The condition of `if constexpr (Is<T>())` in ValueOr, as a constant
\* expression: Is<T>() on *this reads value_ for every T that has a
\* variant, which no constant expression may do; for a T without one it is
\* the constant false where the compiler admits `this` in a constant
\* expression (thisInConstexpr), and not a constant expression elsewhere.
IsAsConstant(T, thisInConstexpr) ==
  IF \E a \in ToOverloads : Satisfies(T, a) THEN "not a constant expression"
  ELSE IF thisInConstexpr THEN "false"
  ELSE "not a constant expression"

\* Node::ValueOr<T>(const T &value).
ValueOr(n, T, value, thisInConstexpr) ==
  LET condition == IsAsConstant(T, thisInConstexpr)
  IN  IF condition = "not a constant expression" THEN Throw(n, IllFormed)
      ELSE IF condition = "true" THEN To(n, T)
      ELSE Return(n, value)

\* A default of type T, as handed to ValueOr<T>.
DefaultsOf(T) ==
  CASE T = "std::string" -> {"dflt"}
    [] T = "bool" -> {FALSE}
    [] T = "int" -> {0, 42}
    [] T = "double" -> {25}
    [] T = "Node::Sequence" -> {<<>>}
    [] T = "Node::Object" -> {EmptyObject}
    [] T = "Point" -> {"Point{1, 2}"}
    [] OTHER -> {"UserType{}"}

(***************************************************************************)
(* Construction and assignment from a built-in value of C++ type T.        *)
(***************************************************************************)
\* The C++ types of the built-in values callers construct and assign from.
BuiltinTypes ==
  { "const char*", "std::string", "std::string_view", "bool", "int",
    "std::int64_t", "float", "double", "Node::Sequence", "Node::Object" }

\* The values of type T they use.
ArgumentsOf(T) ==
  IF TraitIsString(T) THEN {"hi"}
  ELSE IF T = "bool" THEN {TRUE}
  ELSE IF TraitIsInteger(T) THEN {42}
  ELSE IF TraitIsFloating(T) THEN {15}
  ELSE IF TraitIsSequence(T) THEN {<< IntegerNode(1) >>}
  ELSE {EmptyObject}

\* Node(T value): the non-template Node(Boolean) is preferred for a bool,
\* every other T selects the one constructor template whose trait it has.
Construct(T, value) ==
  IF T = "bool" THEN BooleanNode(value)
  ELSE IF TraitIsString(T) THEN StringNode(value)
  ELSE IF TraitIsInteger(T) THEN IntegerNode(value)
  ELSE IF TraitIsFloating(T) THEN FloatingNode(value)
  ELSE IF TraitIsSequence(T) THEN SequenceNode(value)
  ELSE ObjectNode(value)

\* Node &operator=(T value) of config-cpp/node.h: the non-template
\* operator=(Boolean) for a bool, else the template whose trait T has;
\* each puts a fresh alternative into value_.
AssignBuiltin(n, T, value) ==
  IF TraitIsString(T) THEN Return(StringNode(value), "*this")
  ELSE IF T = "bool" THEN Return(BooleanNode(value), "*this")
  ELSE IF TraitIsInteger(T) THEN Return(IntegerNode(value), "*this")
  ELSE IF TraitIsFloating(T) THEN Return(FloatingNode(value), "*this")
  ELSE IF TraitIsSequence(T) THEN Return(SequenceNode(value), "*this")
  ELSE Return(ObjectNode(value), "*this")

\* Rank of the implicit conversion of an argument of type `from` to a
\* parameter of type `to`: 0 exact match, 1 promotion, 2 conversion,
\* 3 user-defined conversion, 4 none.
ConversionRank(from, to) ==
  LET arithmetic == {"bool", "char", "int", "std::int64_t", "std::uint64_t",
                     "float", "double", "std::int8_t", "std::uint8_t",
                     "std::int16_t", "std::uint16_t", "std::uint32_t"}
      narrow == {"bool", "char", "std::int8_t", "std::uint8_t",
                 "std::int16_t", "std::uint16_t"}
  IN  IF from = to THEN 0
      ELSE IF from = "float" /\ to = "double" THEN 1
      ELSE IF from \in narrow /\ to = "int" THEN 1
      ELSE IF from \in arithmetic /\ to \in arithmetic THEN 2
      ELSE IF from = "const char*" /\ to = "bool" THEN 2
      ELSE IF from = "const char*" /\ to \in {"std::string", "std::string_view"}
        THEN 3
      ELSE IF from = "std::string" /\ to = "std::string_view" THEN 3
      ELSE 4

\* Node &operator=(...) of config/core/node.h: overload resolution among
\* the non-template overloads by parameter type (the Serialiser template
\* is not viable for a built-in value).  The call is ill-formed unless one
\* overload has the best conversion.
CoreAssign(n, T, value) ==
  LET parameters == {"std::string", "std::string_view", "const char*", "bool",
                     "std::int64_t", "double", "Node::Sequence",
                     "Node::Object"}
      best == {P \in parameters :
                 /\ ConversionRank(T, P) < 4
                 /\ \A Q \in parameters :
                      ConversionRank(T, P) <= ConversionRank(T, Q)}
      P == CHOOSE P \in best : TRUE
  IN  IF Cardinality(best) # 1 THEN Throw(n, IllFormed)
      ELSE IF TraitIsString(P) THEN Return(StringNode(value), "*this")
      ELSE IF P = "bool" THEN Return(BooleanNode(value), "*this")
      ELSE IF P = "std::int64_t" THEN Return(IntegerNode(value), "*this")
      ELSE IF P = "double" THEN Return(FloatingNode(value), "*this")
      ELSE IF P = "Node::Sequence" THEN Return(SequenceNode(value), "*this")
      ELSE Return(ObjectNode(value), "*this")

\* The two copies of the Node class in the repository, by include path.
Headers == {"config-cpp/node.h", "config/core/node.h"}

(***************************************************************************)
(* The caller's tree and the reference it holds into it.                   *)
(***************************************************************************)
VARIABLES
  root,    \* the caller's Node, by value
  cur,     \* the Node& the running expression holds: subscripts from root
  last,    \* the call that has just returned or thrown: its target,
           \* argument and outcome (Idle between calls)
  prev,    \* root as it was when that call began
  pushed,  \* successful Push calls on root since it was a fresh Null
           \* (-1 once root was given a value in another way)
  chain,   \* what the running expression has done: "keys" while it began
           \* at a Null root and made mutable key subscripts only,
           \* "assigned" once it closed those with one assignment
  other,   \* a second Node of the caller, by value
  copyOf,  \* the latest copy made between the tree and `other`: where in
           \* the tree it is, and the value of either side at the copy
           \* (Stale once that side itself was written to)
  file,    \* the file at the path the caller opens and saves: the path
           \* and the characters in the file
  io       \* the calls the latest Open or Save made, in order

vars == << root, cur, last, prev, pushed, chain, other, copyOf, file, io >>

\* std::vector<Node>::operator[](index): the element, or an indeterminate
\* value when index is not below size() (the access is unchecked).
ElementAt(s, index) ==
  IF index + 1 \in DOMAIN s THEN s[index + 1] ELSE [type |-> "Indeterminate"]

\* The child a subscript step refers to: AsObject()[field] or
\* AsSequence()[index].
Child(n, step) ==
  IF "k" \in DOMAIN step THEN n.object[step.k]
  ELSE ElementAt(n.sequence, step.i)

\* The node a chain of subscript steps refers to.
RECURSIVE NodeAt(_, _)
NodeAt(n, path) ==
  IF path = <<>> THEN n ELSE NodeAt(Child(n, Head(path)), Tail(path))

\* The tree n after the node its reference `path` denotes was left as m.
RECURSIVE Replace(_, _, _)
Replace(n, path, m) ==
  IF path = <<>> THEN m
  ELSE IF "k" \in DOMAIN Head(path)
       THEN ObjectNode([n.object EXCEPT
                          ![Head(path).k] = Replace(@, Tail(path), m)])
       ELSE SequenceNode([n.sequence EXCEPT
                            ![Head(path).i + 1] = Replace(@, Tail(path), m)])

\* Number of descendants a node owns.
RECURSIVE NodeCount(_)
RECURSIVE SumCounts(_, _)
SumCounts(f, dom) ==
  IF dom = {} THEN 0
  ELSE LET d == CHOOSE d \in dom : TRUE
       IN  1 + NodeCount(f[d]) + SumCounts(f, dom \ {d})
NodeCount(n) ==
  IF IsSequence(n) THEN SumCounts(n.sequence, DOMAIN n.sequence)
  ELSE IF IsObject(n) THEN SumCounts(n.object, DOMAIN n.object)
  ELSE 0

\* int arguments of operator[](int).
Indices == {IntMin} \cup (-1 .. MaxNodes)

\* A side of a copy that has been written to since.
Stale == [type |-> "Stale"]

\* No copy has been made.
NoCopy == [at |-> <<>>, a |-> Stale, b |-> Stale]

\* Node root; Node other;  (Node() : value_(Null()))
Init ==
  /\ root = NullNode
  /\ cur = <<>>
  /\ last = Idle
  /\ prev = NullNode
  /\ pushed = 0
  /\ chain = "keys"
  /\ other = NullNode
  /\ copyOf = NoCopy
  /\ file = [path |-> <<>>, content |-> [t |-> "absent"]]
  /\ io = <<>>

\* The call `op(arg)` on the node cur refers to had outcome r; the
\* expression goes on from the reference `next`; `copy` is the copy the
\* call leaves to be remembered.
CallWith(op, arg, r, next, copy) ==
  /\ last.op = "none"
  /\ root' = Replace(root, cur, r.node)
  /\ NodeCount(root') <= MaxNodes
  /\ prev' = root
  /\ last' = [op |-> op, at |-> cur, arg |-> arg, fault |-> r.fault,
              ret |-> r.ret]
  /\ cur' = IF r.fault = NoFault THEN next ELSE <<>>
  /\ pushed' =
       IF op = "Push" /\ cur = <<>> /\ r.fault = NoFault /\ pushed >= 0
         THEN pushed + 1
       ELSE IF cur = <<>> /\ r.node # root
         THEN (IF IsNull(r.node) THEN 0 ELSE -1)
       ELSE pushed
  /\ chain' =
       IF r.fault # NoFault \/ next = <<>>
         THEN (IF IsNull(root') THEN "keys" ELSE "other")
       ELSE IF op = "Subscript" /\ chain = "keys" THEN "keys"
       ELSE IF op = "Assign" /\ chain = "keys" THEN "assigned"
       ELSE "other"
  /\ other' = other
  /\ copyOf' = copy
  /\ UNCHANGED << file, io >>

\* A call on the tree that copies nothing from or to `other`.
Call(op, arg, r, next) ==
  CallWith(op, arg, r, next,
           IF Replace(root, cur, r.node) = root THEN copyOf
           ELSE [copyOf EXCEPT !.a = Stale])

\* The caller has taken the outcome of the call and goes on with the
\* expression.
Resume ==
  /\ last.op # "none"
  /\ last' = Idle
  /\ prev' = root
  /\ UNCHANGED << root, cur, pushed, chain, other, copyOf, file, io >>

\* The full-expression ends; the next one starts from root again.
EndStatement ==
  /\ last.op = "none"
  /\ cur # <<>>
  /\ cur' = <<>>
  /\ chain' = IF IsNull(root) THEN "keys" ELSE "other"
  /\ UNCHANGED << root, last, prev, pushed, other, copyOf, file, io >>

\* node[field], mutable.
SubscriptStep(field) ==
  LET r == Subscript(NodeAt(root, cur), field)
  IN  Call("Subscript", field, r, Append(cur, r.ret))

\* std::as_const(node)[field].
ConstSubscriptStep(field) ==
  Call("ConstSubscript", field, ConstSubscript(NodeAt(root, cur), field), <<>>)

\* node[index], mutable.
IndexStep(index) ==
  LET r == SubscriptOperator(NodeAt(root, cur), index)
  IN  Call("Index", index, r, Append(cur, r.ret))

\* std::as_const(node)[index]: the same SubscriptOperator, const Self.
ConstIndexStep(index) ==
  LET n == NodeAt(root, cur)
      r == SubscriptOperator(n, index)
  IN  Call("ConstIndex", index,
           IF r.fault = NoFault THEN Return(r.node, Child(n, r.ret)) ELSE r,
           <<>>)

\* node.Push(x).
PushStep(x) == Call("Push", x, Push(NodeAt(root, cur), x), <<>>)

\* node = v, for a built-in value v or a Node() temporary.
AssignStep(v) == Call("Assign", v, Assign(NodeAt(root, cur), v), cur)

\* node.Length().
LengthStep == Call("Length", "none", Length(NodeAt(root, cur)), <<>>)

\* node.Contains(field).
ContainsStep(field) ==
  Call("Contains", field, Contains(NodeAt(root, cur), field), <<>>)

\* node.AsString() .. node.AsObject(), read.
AsStep(T) == Call("As", T, As(NodeAt(root, cur), T), <<>>)

\* node.AsString() = v .. node.AsObject() = v: a write through the
\* reference a mutable As returns.
AsWriteStep(v) ==
  LET r == As(NodeAt(root, cur), v.type)
  IN  Call("AsWrite", v, IF r.fault = NoFault THEN Return(v, "void") ELSE r,
           <<>>)

\* node.To<T>().
ToStep(T) == Call("To", T, To(NodeAt(root, cur), T), <<>>)

\* node.ValueOr<T>(value).
ValueOrStep(T, value, thisInConstexpr) ==
  Call("ValueOr", [T |-> T, value |-> value],
       ValueOr(NodeAt(root, cur), T, value, thisInConstexpr), <<>>)

\* node = value, for a built-in value of type T, compiled against `header`.
AssignBuiltinStep(header, T, value) ==
  Call("AssignBuiltin", [header |-> header, T |-> T, value |-> value],
       IF header = "config-cpp/node.h"
         THEN AssignBuiltin(NodeAt(root, cur), T, value)
       ELSE CoreAssign(NodeAt(root, cur), T, value),
       cur)

\* node.Is<T>().
IsStep(T) ==
  Call("Is", T, Return(NodeAt(root, cur), Is(NodeAt(root, cur), T)), <<>>)

\* node.Type().
TypeStep == Call("Type", "none", Type(NodeAt(root, cur)), <<>>)

Next ==
  \/ Resume
  \/ EndStatement
  \/ \E field \in Keys : SubscriptStep(field)
  \/ \E field \in Keys : ConstSubscriptStep(field)
  \/ \E index \in Indices : IndexStep(index)
  \/ \E index \in Indices : ConstIndexStep(index)
  \/ \E x \in NodeValues : PushStep(x)
  \/ \E v \in NodeValues : AssignStep(v)
  \/ LengthStep
  \/ \E field \in Keys : ContainsStep(field)
  \/ \E T \in ToOverloads : AsStep(T)
  \/ \E v \in BuiltinValues : AsWriteStep(v)
  \/ \E T \in CppTypes : ToStep(T)
  \/ \E T \in CppTypes \cup ConverterTypes : \E value \in DefaultsOf(T) :
       \E thisInConstexpr \in BOOLEAN : ValueOrStep(T, value, thisInConstexpr)
  \/ \E T \in IsTypes : IsStep(T)
  \/ TypeStep
  \/ \E header \in Headers : \E T \in BuiltinTypes :
       \E value \in ArgumentsOf(T) : AssignBuiltinStep(header, T, value)

Spec == Init /\ [][Next]_vars

(***************************************************************************)
(* Copies between the tree and the second Node `other`.                    *)
(***************************************************************************)
\* The values the copying program writes with.
CopyValues == {IntegerNode(1), StringNode("hi")}

\* other = node;  (or Node other(node);)
CopyConstructStep ==
  /\ last.op = "none"
  /\ other' = Copy(NodeAt(root, cur))
  /\ copyOf' = [at |-> cur, a |-> NodeAt(root, cur), b |-> other']
  /\ last' = [op |-> "CopyConstruct", at |-> cur, arg |-> "none",
              fault |-> NoFault, ret |-> "none"]
  /\ prev' = root
  /\ cur' = <<>>
  /\ chain' = IF IsNull(root) THEN "keys" ELSE "other"
  /\ UNCHANGED << root, pushed, file, io >>

\* node = other;  (also the second half of node[field] = other)
CopyAssignStep ==
  LET r == Assign(NodeAt(root, cur), Copy(other))
  IN  CallWith("CopyAssign", other, r, cur,
               [at |-> cur, a |-> r.node, b |-> other])

\* node.Push(other).
PushCopyStep ==
  LET r == Push(NodeAt(root, cur), other)
  IN  CallWith("PushCopy", other, r, <<>>,
               IF r.fault # NoFault THEN copyOf
               ELSE [at |-> Append(cur, [i |-> Len(r.node.sequence) - 1]),
                     a |-> ElementAt(r.node.sequence,
                                     Len(r.node.sequence) - 1),
                     b |-> other])

\* Node::Push(const Node &node) with an argument that refers into the
\* receiver: `path` leads from the receiver to the node referred to (empty:
\* the receiver itself).  The reference is read by push_back, after a Null
\* receiver was made an empty Sequence.
PushReference(n, path) ==
  IF ~IsSequence(n) /\ ~IsNull(n) THEN Throw(n, CannotPush)
  ELSE LET m == IF IsNull(n) THEN SequenceNode(<<>>) ELSE n
           s == As(m, "Sequence")
       IN  IF s.fault # NoFault THEN s
           ELSE Return(SequenceNode(Append(s.ret, NodeAt(m, path))), "void")

\* node.Push(node);  node.Push(node[index]);
PushSelfStep(path) ==
  /\ path # <<>> =>
       /\ IsSequence(NodeAt(root, cur))
       /\ Head(path).i < Len(NodeAt(root, cur).sequence)
  /\ Call("PushSelf", path, PushReference(NodeAt(root, cur), path), <<>>)

\* A statement on `other` had outcome r.
OtherCall(op, arg, r) ==
  /\ last.op = "none"
  /\ cur = <<>>
  /\ other' = r.node
  /\ NodeCount(other') <= MaxNodes
  /\ copyOf' = IF other' = other THEN copyOf ELSE [copyOf EXCEPT !.b = Stale]
  /\ last' = [op |-> op, at |-> <<>>, arg |-> arg, fault |-> r.fault,
              ret |-> r.ret]
  /\ prev' = root
  /\ UNCHANGED << root, cur, pushed, chain, file, io >>

\* other = v.
OtherAssignStep(v) == OtherCall("OtherAssign", v, Assign(other, v))

\* other.Push(x).
OtherPushStep(x) == OtherCall("OtherPush", x, Push(other, x))

\* other[field] = v.
OtherSubscriptAssignStep(field, v) ==
  LET s == Subscript(other, field)
  IN  OtherCall("OtherSubscriptAssign", [k |-> field, v |-> v],
                IF s.fault # NoFault THEN s
                ELSE Return(Replace(s.node, << s.ret >>,
                                    Assign(Child(s.node, s.ret), v).node),
                            "*this"))

NextCopy ==
  \/ Resume
  \/ EndStatement
  \/ \E field \in Keys : SubscriptStep(field)
  \/ \E x \in CopyValues : PushStep(x)
  \/ \E v \in CopyValues : AssignStep(v)
  \/ CopyConstructStep
  \/ CopyAssignStep
  \/ PushCopyStep
  \/ \E path \in {<<>>} \cup {<< [i |-> index] >> : index \in 0 .. MaxNodes} :
       PushSelfStep(path)
  \/ \E v \in CopyValues : OtherAssignStep(v)
  \/ \E x \in CopyValues : OtherPushStep(x)
  \/ \E field \in Keys : \E v \in CopyValues :
       OtherSubscriptAssignStep(field, v)

SpecCopy == Init /\ [][NextCopy]_vars

(***************************************************************************)
(* The codecs.  A std::string is the tuple of its characters, "NUL" being  *)
(* the character '\0'.  A document is the tree of its lexemes: whitespace, *)
(* indentation and punctuation are not kept, the spelling of every scalar  *)
(* is.  "xFF" is a byte that occurs in no UTF-8 string.                    *)
(***************************************************************************)
\* The characters of the model, in the order of their codes.
Alphabet ==
  << "NUL", "\"", "-", ".", "0", "1", "2", "3", "4", "5", "6", "7", "8", "9",
     "a", "b", "c", "e", "f", "h", "i", "l", "n", "o", "p", "r", "s", "t",
     "u", "~" >>

\* operator< of std::string, the order of the keys of a JSON object.
RECURSIVE KeyLess(_, _)
KeyLess(s, t) ==
  LET Code(c) == CHOOSE i \in DOMAIN Alphabet : Alphabet[i] = c
  IN  IF t = <<>> THEN FALSE
      ELSE IF s = <<>> THEN TRUE
      ELSE IF Head(s) = Head(t) THEN KeyLess(Tail(s), Tail(t))
      ELSE Code(Head(s)) < Code(Head(t))

\* The keys S in the order a range-for visits them.
RECURSIVE InOrder(_)
InOrder(S) ==
  IF S = {} THEN <<>>
  ELSE LET first == CHOOSE k \in S : \A j \in S \ {k} : KeyLess(k, j)
       IN  << first >> \o InOrder(S \ {first})

\* field.data() read as a const char *: the characters before the first
\* '\0'.
RECURSIVE CStr(_)
CStr(field) ==
  IF field = <<>> \/ Head(field) = "NUL" THEN <<>>
  ELSE << Head(field) >> \o CStr(Tail(field))

\* ConvertSequence of the parsers: Node output; then output.Push(element)
\* for every converted element.
RECURSIVE ConvertSequence(_, _)
ConvertSequence(output, elements) ==
  IF elements = <<>> THEN output
  ELSE ConvertSequence(Push(output, Head(elements)).node, Tail(elements))

\* ConvertObject / ConvertMap of the parsers: Node output; then
\* output[field] = element for every converted member, field a std::string.
RECURSIVE ConvertObject(_, _)
ConvertObject(output, members) ==
  IF members = <<>> THEN output
  ELSE LET child == Subscript(output, CStr(Head(members).key))
       IN  ConvertObject(Replace(child.node, << child.ret >>,
                                 Head(members).value),
                         Tail(members))

\* std::numeric_limits<double>::infinity(), as a Floating payload.
Infinity == 1000000

\* The ParseError of a format, a Config::Error by way of JsonError or
\* YamlError.
ParseError(format) ==
  IF format = "Json" THEN "JsonFormat::ParseError"
  ELSE "YamlFormat::ParseError"

(***************************************************************************)
(* JSON.  A Json value is a record: its value_t and its payload.           *)
(***************************************************************************)
\* Convert(const Node &) of dump.cc: the Json value for the alternative
\* Type() names.
RECURSIVE ToJson(_)
ToJson(node) ==
  LET type == Type(node).ret
  IN  CASE type = "Null" -> [type |-> "null"]
        [] type = "String" -> [type |-> "string", string |-> node.string]
        [] type = "Boolean" -> [type |-> "boolean", boolean |-> node.boolean]
        [] type = "Integer" ->
             [type |-> "number_integer", number |-> node.integer]
        [] type = "Floating" ->
             [type |-> "number_float", number |-> node.floating]
        [] type = "Sequence" ->
             [type |-> "array",
              array |-> [i \in DOMAIN node.sequence |->
                           ToJson(node.sequence[i])]]
        [] type = "Object" ->
             [type |-> "object",
              object |-> [field \in DOMAIN node.object |->
                            ToJson(node.object[field])]]

\* Json::dump(4): null, true and false as such; an integer in decimal; a
\* finite float with a fraction part and any other float as null; a string
\* with its escapes; an object with its members in key order.
RECURSIVE JsonText(_)
JsonText(json) ==
  LET Escape(s) ==
        [i \in DOMAIN s |-> IF s[i] = "NUL" THEN "\\u0000"
                            ELSE IF s[i] = "\"" THEN "\\\""
                            ELSE s[i]]
      magnitude == IF json.number < 0 THEN -json.number ELSE json.number
      keys == InOrder(DOMAIN json.object)
  IN  CASE json.type = "null" -> [t |-> "null"]
        [] json.type = "boolean" ->
             [t |-> IF json.boolean THEN "true" ELSE "false"]
        [] json.type = "string" ->
             [t |-> "string", chars |-> Escape(json.string)]
        [] json.type \in {"number_integer", "number_unsigned"} ->
             [t |-> "number", negative |-> json.number < 0,
              digits |-> magnitude, fraction |-> -1]
        [] json.type = "number_float" ->
             IF json.number = Infinity THEN [t |-> "null"]
             ELSE [t |-> "number", negative |-> json.number < 0,
                   digits |-> magnitude \div 10, fraction |-> magnitude % 10]
        [] json.type = "array" ->
             [t |-> "array",
              items |-> [i \in DOMAIN json.array |-> JsonText(json.array[i])]]
        [] json.type = "object" ->
             [t |-> "object",
              members |-> [i \in DOMAIN keys |->
                             [key |-> Escape(keys[i]),
                              value |-> JsonText(json.object[keys[i]])]]]

\* Json::parse: the Json value of a document, or parse_error.  A number
\* with a fraction is a number_float, another one a number_integer when it
\* has a sign and a number_unsigned when it has none; of two members with
\* one key the later is kept.
RECURSIVE JsonValue(_)
JsonValue(text) ==
  LET Unescape(s) ==
        [i \in DOMAIN s |-> IF s[i] = "\\u0000" THEN "NUL"
                            ELSE IF s[i] = "\\\"" THEN "\""
                            ELSE s[i]]
      items == [i \in DOMAIN text.items |-> JsonValue(text.items[i])]
      keys == {Unescape(text.members[i].key) : i \in DOMAIN text.members}
      Last(k) == CHOOSE i \in DOMAIN text.members :
                   /\ Unescape(text.members[i].key) = k
                   /\ \A j \in DOMAIN text.members :
                        Unescape(text.members[j].key) = k => j <= i
      object == [k \in keys |-> JsonValue(text.members[Last(k)].value)]
  IN  CASE text.t = "null" -> [type |-> "null"]
        [] text.t \in {"true", "false"} ->
             [type |-> "boolean", boolean |-> text.t = "true"]
        [] text.t = "string" ->
             [type |-> "string", string |-> Unescape(text.chars)]
        [] text.t = "number" ->
             IF text.fraction >= 0
               THEN [type |-> "number_float",
                     number |-> (IF text.negative THEN -1 ELSE 1)
                                  * (text.digits * 10 + text.fraction)]
             ELSE IF text.negative
               THEN [type |-> "number_integer", number |-> -text.digits]
             ELSE [type |-> "number_unsigned", number |-> text.digits]
        [] text.t = "array" ->
             IF \E i \in DOMAIN items : items[i].type = "parse_error"
               THEN [type |-> "parse_error"]
             ELSE [type |-> "array", array |-> items]
        [] text.t = "object" ->
             IF \E k \in keys : object[k].type = "parse_error"
               THEN [type |-> "parse_error"]
             ELSE [type |-> "object", object |-> object]
        [] OTHER -> [type |-> "parse_error"]

\* Convert(const Json &) of parse.cc.
RECURSIVE FromJson(_)
FromJson(input) ==
  LET keys == InOrder(DOMAIN input.object)
  IN  CASE input.type = "null" -> NullNode
        [] input.type = "string" -> Construct("std::string", input.string)
        [] input.type = "boolean" -> Construct("bool", input.boolean)
        [] input.type \in {"number_integer", "number_unsigned"} ->
             Construct("std::int64_t", input.number)
        [] input.type = "number_float" -> Construct("double", input.number)
        [] input.type = "array" ->
             ConvertSequence(NullNode,
                             [i \in DOMAIN input.array |->
                                FromJson(input.array[i])])
        [] input.type = "object" ->
             ConvertObject(NullNode,
                           [i \in DOMAIN keys |->
                              [key |-> keys[i],
                               value |-> FromJson(input.object[keys[i]])]])

\* DumpError of either format.
DumpError(format) ==
  IF format = "Json" THEN "JsonFormat::DumpError" ELSE "YamlFormat::DumpError"

\* Whether every string of a Json value is UTF-8: "xFF" is a byte that no
\* UTF-8 sequence holds.
RECURSIVE Utf8(_)
Utf8(json) ==
  LET Valid(s) == \A i \in DOMAIN s : s[i] # "xFF"
  IN  CASE json.type = "string" -> Valid(json.string)
        [] json.type = "array" ->
             \A i \in DOMAIN json.array : Utf8(json.array[i])
        [] json.type = "object" ->
             \A k \in DOMAIN json.object :
               Valid(k) /\ Utf8(json.object[k])
        [] OTHER -> TRUE

\* JsonFormat::Dump(const Node &): dump(4) throws a Json::exception
\* (type_error 316) on a string that is not UTF-8, which becomes a
\* DumpError.
JsonDump(node) ==
  IF ~Utf8(ToJson(node)) THEN Throw(node, DumpError("Json"))
  ELSE Return(node, JsonText(ToJson(node)))

\* JsonFormat::Parse(content): a Json::exception becomes a ParseError.
JsonParse(content) ==
  LET json == JsonValue(content)
  IN  IF json.type = "parse_error" THEN Throw(NullNode, ParseError("Json"))
      ELSE Return(FromJson(json), "Node")

(***************************************************************************)
(* YAML.  A YAML::Node is a record: its NodeType and its payload; a Map is *)
(* the sequence of its pairs, in document order.                           *)
(***************************************************************************)
\* The decimal digits, by value.
Digits == SubSeq(Alphabet, 5, 14)

\* operator<< of a stream on a non-negative integer.
RECURSIVE Decimal(_)
Decimal(i) ==
  IF i < 10 THEN << Digits[i + 1] >>
  ELSE Decimal(i \div 10) \o << Digits[(i % 10) + 1] >>

\* operator>> of a stream into an unsigned integer, all the characters
\* consumed: the value, or -1 when the characters are no decimal literal.
RECURSIVE Natural(_)
Natural(chars) ==
  LET Value(c) == (CHOOSE d \in DOMAIN Digits : Digits[d] = c) - 1
      digit == \E d \in DOMAIN Digits : Digits[d] = chars[Len(chars)]
      front == SubSeq(chars, 1, Len(chars) - 1)
  IN  IF chars = <<>> \/ ~digit THEN -1
      ELSE IF front = <<>> THEN Value(chars[1])
      ELSE IF Natural(front) < 0 THEN -1
      ELSE Natural(front) * 10 + Value(chars[Len(chars)])

\* The spellings the emitter and the loader take for null.
NullStrings == { <<>>, << "~" >>, << "n", "u", "l", "l" >> }

\* YAML::Node::as<T>(): the decoded value, or YAML::BadConversion.  The
\* literals of the model are decimal, with at most one digit of fraction.
YamlAs(input, T) ==
  LET chars == input.scalar
      negative == chars # <<>> /\ Head(chars) = "-"
      body == IF negative THEN Tail(chars) ELSE chars
      sign == IF negative THEN -1 ELSE 1
      Ok(value) == [ok |-> TRUE, value |-> value]
      Bad == [ok |-> FALSE]
      whole == IF Len(body) > 2 /\ body[Len(body) - 1] = "."
                 THEN SubSeq(body, 1, Len(body) - 2)
               ELSE body
      fraction == IF Len(body) > 2 /\ body[Len(body) - 1] = "."
                    THEN << body[Len(body)] >>
                  ELSE << "0" >>
  IN  IF T = "String"
        THEN (IF input.type = "Null" THEN Ok(<< "n", "u", "l", "l" >>)
              ELSE IF input.type = "Scalar" THEN Ok(chars)
              ELSE Bad)
      ELSE IF input.type # "Scalar" THEN Bad
      ELSE IF T = "Integer"
        THEN (IF Natural(body) < 0 THEN Bad ELSE Ok(sign * Natural(body)))
      ELSE IF T = "Floating"
        THEN (IF chars = << ".", "i", "n", "f" >> THEN Ok(Infinity)
              ELSE IF Natural(whole) < 0 \/ Natural(fraction) < 0 THEN Bad
              ELSE Ok(sign * (Natural(whole) * 10 + Natural(fraction))))
      ELSE IF chars \in { << "t", "r", "u", "e" >>, << "y", "e", "s" >>,
                          << "y" >>, << "o", "n" >> }
        THEN Ok(TRUE)
      ELSE IF chars \in { << "f", "a", "l", "s", "e" >>, << "n", "o" >>,
                          << "n" >>, << "o", "f", "f" >> }
        THEN Ok(FALSE)
      ELSE Bad

\* An exception of yaml-cpp in flight, in the place of a value.
BadConversion == [type |-> "YAML::BadConversion"]
ParserException == [type |-> "YAML::ParserException"]

\* ConvertScalar of parse.cc: as<String>() first; as<Integer>(), then
\* as<Floating>(), then as<Boolean>() in the handlers of the conversion
\* before.
ConvertScalar(input) ==
  LET string == YamlAs(input, "String")
      integer == YamlAs(input, "Integer")
      floating == YamlAs(input, "Floating")
      boolean == YamlAs(input, "Boolean")
  IN  IF string.ok THEN Construct("std::string", string.value)
      ELSE IF integer.ok THEN Construct("std::int64_t", integer.value)
      ELSE IF floating.ok THEN Construct("double", floating.value)
      ELSE IF boolean.ok THEN Construct("bool", boolean.value)
      ELSE BadConversion

\* Convert(const Node &) of dump.cc: YAML::Node(value) writes a Boolean,
\* an Integer and a Floating through a stream.
RECURSIVE ToYaml(_)
ToYaml(node) ==
  LET type == Type(node).ret
      Signed(i, chars) == IF i < 0 THEN << "-" >> \o chars ELSE chars
      Magnitude(i) == IF i < 0 THEN -i ELSE i
      floating ==
        IF node.floating = Infinity THEN << ".", "i", "n", "f" >>
        ELSE Signed(node.floating,
                    Decimal(Magnitude(node.floating) \div 10)
                      \o (IF node.floating % 10 = 0 THEN <<>>
                          ELSE << "." >>
                                 \o Decimal(Magnitude(node.floating) % 10)))
      fields == InOrder(DOMAIN node.object)
  IN  CASE type = "Null" -> [type |-> "Null"]
        [] type = "String" -> [type |-> "Scalar", scalar |-> node.string]
        [] type = "Boolean" ->
             [type |-> "Scalar",
              scalar |-> IF node.boolean THEN << "t", "r", "u", "e" >>
                         ELSE << "f", "a", "l", "s", "e" >>]
        [] type = "Integer" ->
             [type |-> "Scalar",
              scalar |-> Signed(node.integer,
                                Decimal(Magnitude(node.integer)))]
        [] type = "Floating" -> [type |-> "Scalar", scalar |-> floating]
        [] type = "Sequence" ->
             [type |-> "Sequence",
              sequence |-> [i \in DOMAIN node.sequence |->
                              ToYaml(node.sequence[i])]]
        [] type = "Object" ->
             [type |-> "Map",
              map |-> [i \in DOMAIN fields |->
                         [key |-> [type |-> "Scalar", scalar |-> fields[i]],
                          value |-> ToYaml(node.object[fields[i]])]]]

\* YAML::Dump: Null as ~; a scalar plain when its characters allow it and
\* are not a spelling of null, double-quoted with its escapes otherwise.
RECURSIVE YamlText(_)
YamlText(yaml) ==
  LET Escape(s) ==
        [i \in DOMAIN s |-> IF s[i] = "NUL" THEN "\\x00"
                            ELSE IF s[i] = "\"" THEN "\\\""
                            ELSE s[i]]
      plain == /\ yaml.scalar \notin NullStrings
               /\ Head(yaml.scalar) # "\""
               /\ \A i \in DOMAIN yaml.scalar : yaml.scalar[i] # "NUL"
  IN  CASE yaml.type = "Null" -> [t |-> "plain", chars |-> << "~" >>]
        [] yaml.type = "Scalar" ->
             IF plain THEN [t |-> "plain", chars |-> yaml.scalar]
             ELSE [t |-> "quoted", chars |-> Escape(yaml.scalar)]
        [] yaml.type = "Sequence" ->
             [t |-> "sequence",
              items |-> [i \in DOMAIN yaml.sequence |->
                           YamlText(yaml.sequence[i])]]
        [] yaml.type = "Map" ->
             [t |-> "map",
              members |-> [i \in DOMAIN yaml.map |->
                             [key |-> YamlText(yaml.map[i].key),
                              value |-> YamlText(yaml.map[i].value)]]]

\* YAML::Load: the YAML::Node of a document, or a ParserException.
RECURSIVE YamlLoad(_)
YamlLoad(text) ==
  LET Unescape(s) ==
        [i \in DOMAIN s |-> IF s[i] = "\\x00" THEN "NUL"
                            ELSE IF s[i] = "\\\"" THEN "\""
                            ELSE s[i]]
      items == [i \in DOMAIN text.items |-> YamlLoad(text.items[i])]
      pairs == [i \in DOMAIN text.members |->
                  [key |-> YamlLoad(text.members[i].key),
                   value |-> YamlLoad(text.members[i].value)]]
  IN  CASE text.t = "plain" ->
             IF text.chars \in NullStrings THEN [type |-> "Null"]
             ELSE [type |-> "Scalar", scalar |-> text.chars]
        [] text.t = "quoted" ->
             [type |-> "Scalar", scalar |-> Unescape(text.chars)]
        [] text.t = "sequence" ->
             IF \E i \in DOMAIN items : items[i] = ParserException
               THEN ParserException
             ELSE [type |-> "Sequence", sequence |-> items]
        [] text.t = "map" ->
             IF \E i \in DOMAIN pairs :
                  \/ pairs[i].key = ParserException
                  \/ pairs[i].value = ParserException
               THEN ParserException
             ELSE [type |-> "Map", map |-> pairs]
        [] OTHER -> ParserException

\* Convert(const YAML::Node &) of parse.cc.
RECURSIVE FromYaml(_)
FromYaml(input) ==
  LET elements == [i \in DOMAIN input.sequence |->
                     FromYaml(input.sequence[i])]
      keys == [i \in DOMAIN input.map |-> YamlAs(input.map[i].key, "String")]
      values == [i \in DOMAIN input.map |-> FromYaml(input.map[i].value)]
  IN  CASE input.type = "Null" -> NullNode
        [] input.type = "Scalar" -> ConvertScalar(input)
        [] input.type = "Sequence" ->
             IF \E i \in DOMAIN elements : elements[i] = BadConversion
               THEN BadConversion
             ELSE ConvertSequence(NullNode, elements)
        [] input.type = "Map" ->
             IF \E i \in DOMAIN keys :
                  ~keys[i].ok \/ values[i] = BadConversion
               THEN BadConversion
             ELSE ConvertObject(NullNode,
                                [i \in DOMAIN keys |->
                                   [key |-> keys[i].value,
                                    value |-> values[i]]])

\* YamlFormat::Dump(const Node &).
YamlDump(node) == Return(node, YamlText(ToYaml(node)))

\* YamlFormat::Parse(input): a YAML::Exception becomes a ParseError.
YamlParse(input) ==
  LET yaml == YamlLoad(input)
      node == FromYaml(yaml)
  IN  IF yaml = ParserException \/ node = BadConversion
        THEN Throw(NullNode, ParseError("Yaml"))
      ELSE Return(node, "Node")

(***************************************************************************)
(* Dump and Parse as steps: root is the Node dumped or the Node parsed,    *)
(* last.ret the document a Dump returned.                                  *)
(***************************************************************************)
\* Longest Sequence of a dumped tree.
MaxLen == 2

Formats == {"Json", "Yaml"}

\* Keys of the Objects dumped.
CodecKeys == { << "a" >>, << "b" >>, << "a", "NUL", "b" >> }

\* The trees callers dump: a scalar, an empty container, or a container of
\* those.
CodecTrees ==
  LET scalars ==
        { NullNode, StringNode(<< "h", "i" >>), StringNode(<< "4", "2" >>),
          StringNode(<< "~" >>), BooleanNode(TRUE), IntegerNode(42),
          IntegerNode(-7), FloatingNode(15), FloatingNode(420),
          FloatingNode(Infinity) }
      elements == scalars \cup {SequenceNode(<<>>), ObjectNode(EmptyObject)}
      sequences ==
        UNION {[1 .. length -> elements] : length \in 1 .. MaxLen}
      objects ==
        UNION {[fields -> elements] : fields \in (SUBSET CodecKeys) \ {{}}}
  IN  elements \cup {SequenceNode(s) : s \in sequences}
               \cup {ObjectNode(o) : o \in objects}

\* The documents callers parse, by format.
Documents(format) ==
  LET Number(digits, fraction) ==
        [t |-> "number", negative |-> FALSE, digits |-> digits,
         fraction |-> fraction]
      String(chars) == [t |-> "string", chars |-> chars]
      Array(items) == [t |-> "array", items |-> items]
      Object(members) == [t |-> "object", members |-> members]
      Member(key, value) == [key |-> key, value |-> value]
      Plain(chars) == [t |-> "plain", chars |-> chars]
      Quoted(chars) == [t |-> "quoted", chars |-> chars]
      Items(items) == [t |-> "sequence", items |-> items]
      Map(members) == [t |-> "map", members |-> members]
      malformed == [t |-> "malformed"]
      a == << "a" >>
      ports == << "p", "o", "r", "t", "s" >>
  IN  IF format = "Json"
        THEN { [t |-> "null"], [t |-> "true"], [t |-> "false"],
               String(<< "h", "i" >>), String(<< "\\\"" >>),
               Number(42, -1), Number(1, 5), Number(42, 0),
               [Number(7, -1) EXCEPT !.negative = TRUE],
               Array(<<>>), Object(<<>>),
               Array(<< Number(1, -1), String(<< "h", "i" >>) >>),
               Array(<< Array(<<>>) >>), Array(<< malformed >>),
               Object(<< Member(a, Number(1, -1)) >>),
               Object(<< Member(a, Object(<<>>)) >>),
               Object(<< Member(a, Number(1, -1)),
                         Member(a, Number(2, -1)) >>),
               Object(<< Member(<< "a", "\\u0000", "b" >>, Number(1, -1)),
                         Member(a, Number(2, -1)) >>),
               Object(<< Member(a, malformed) >>),
               malformed }
      ELSE { Plain(<< "~" >>), Plain(<< "4", "2" >>),
             Plain(<< "-", "7" >>), Plain(<< "4", "2", ".", "0" >>),
             Plain(<< "t", "r", "u", "e" >>),
             Plain(<< "h", "e", "l", "l", "o" >>),
             Plain(<< "4", "2", "a", "b", "c" >>), Quoted(<< "4", "2" >>),
             Items(<<>>), Map(<<>>),
             Items(<< Plain(<< "1" >>), Plain(<< "h", "i" >>) >>),
             Items(<< Items(<<>>) >>), Items(<< malformed >>),
             Map(<< Member(Plain(ports),
                           Items(<< Plain(<< "8", "0", "8", "0" >>),
                                    Plain(<< "8", "0", "8", "1" >>) >>)) >>),
             Map(<< Member(Plain(a), Map(<<>>)) >>),
             Map(<< Member(Plain(a), Plain(<< "1" >>)),
                    Member(Plain(a), Plain(<< "2" >>)) >>),
             Map(<< Member(Items(<<>>), Plain(<< "1" >>)) >>),
             Map(<< Member(Plain(a), malformed) >>),
             malformed }

\* Node root = ...;  a tree a caller has built.
InitCodec ==
  /\ root \in CodecTrees
  /\ cur = <<>>
  /\ last = Idle
  /\ prev = root
  /\ pushed = -1
  /\ chain = "other"
  /\ other = NullNode
  /\ copyOf = NoCopy
  /\ file = [path |-> <<>>, content |-> [t |-> "absent"]]
  /\ io = <<>>

\* The codec call `op(arg)` had outcome r; a Parse leaves its result in
\* root.
CodecCall(op, arg, r) ==
  /\ root' = (IF r.fault = NoFault THEN r.node ELSE root)
  /\ prev' = root
  /\ last' = [op |-> op, at |-> <<>>, arg |-> arg, fault |-> r.fault,
              ret |-> r.ret]
  /\ UNCHANGED << cur, pushed, chain, other, copyOf, file, io >>

\* text = JsonFormat::Dump(root) or YamlFormat::Dump(root).
DumpStep(format) ==
  /\ last.op = "none"
  /\ CodecCall("Dump", format,
               IF format = "Json" THEN JsonDump(root) ELSE YamlDump(root))

\* root = Parse(text), text the document the Dump before returned.
ParseBackStep ==
  /\ last.op = "Dump"
  /\ last.fault = NoFault
  /\ CodecCall("ParseBack", last.arg,
               IF last.arg = "Json" THEN JsonParse(last.ret)
               ELSE YamlParse(last.ret))

\* root = JsonFormat::Parse(document) or YamlFormat::Parse(document).
ParseStep(format, document) ==
  /\ last.op = "none"
  /\ CodecCall("Parse", [format |-> format, document |-> document],
               IF format = "Json" THEN JsonParse(document)
               ELSE YamlParse(document))

\* operator[](const std::string &field) and operator[](std::string_view
\* field), mutable and const: return operator[](field.data()).  The
\* const char * overload reads its argument to the first '\0', which for
\* a std::string is its terminator or a '\0' among its characters, and
\* for a std::string_view lies at or after the end of the view: `rest` is
\* what the buffer holds between the end of the argument and the
\* terminator.
StringSubscript(n, field, const) ==
  LET data == CStr(field.chars \o field.rest)
  IN  IF const THEN ConstSubscript(n, data) ELSE Subscript(n, data)

\* root[field], field of type T; root a Node or a const Node.
StringSubscriptStep(T, field, const) ==
  /\ last.op = "none"
  /\ T = "std::string_view" \/ field.rest = <<>>
  /\ T = "const char*" => \A i \in DOMAIN field.chars : field.chars[i] # "NUL"
  /\ CodecCall("StringSubscript",
               [T |-> T, field |-> field.chars, const |-> const],
               StringSubscript(root, field, const))

NextCodec ==
  \/ Resume
  \/ \E T \in {"const char*", "std::string", "std::string_view"} :
       \E field \in [chars : CodecKeys, rest : {<<>>, << "b" >>}] :
         \E const \in BOOLEAN : StringSubscriptStep(T, field, const)
  \/ \E format \in Formats : DumpStep(format)
  \/ ParseBackStep
  \/ \E format \in Formats : \E document \in Documents(format) :
       ParseStep(format, document)

SpecCodec == InitCodec /\ [][NextCodec]_vars

(***************************************************************************)
(* Custom converters: a user type reaches and leaves a Node through a      *)
(* ToConfig / FromConfig pair, nested in the type (internal) or given as   *)
(* specialisations Config::From<U> / Config::To<U> (external).             *)
(***************************************************************************)
\* The converters each user type declares.  Point nests the pair of the
\* documentation; Vendor::Point is the type that "cannot be modified" and
\* has the external pair only; Both::Point has both; UserType has none.
Converters(U) ==
  CASE U = "Point" -> {"Internal"}
    [] U = "Vendor::Point" -> {"External"}
    [] U = "Both::Point" -> {"Internal", "External"}
    [] OTHER -> {}

\* struct Point { int x, y; } and its like, with the field values callers
\* use.
UserValues ==
  LET coordinates == {-200, 100}
  IN  [point : {"Point", "Vendor::Point", "Both::Point", "UserType"},
       x : coordinates, y : coordinates]

\* ToConfig::operator()(const Point &p, Node &node):
\*   node["x"] = p.x;  node["y"] = p.y;
ToConfig(input, node) ==
  LET x == Subscript(node, "x")
      afterX == Replace(x.node, << x.ret >>,
                        AssignBuiltin(NodeAt(x.node, << x.ret >>), "int",
                                      input.x).node)
      y == Subscript(afterX, "y")
      afterY == Replace(y.node, << y.ret >>,
                        AssignBuiltin(NodeAt(y.node, << y.ret >>), "int",
                                      input.y).node)
  IN  IF x.fault # NoFault THEN x
      ELSE IF y.fault # NoFault THEN y
      ELSE Return(afterY, "void")

\* Variant: both fields are read from "x".
FromConfigOneField(node, output) ==
  LET x == ConstSubscript(node, "x")
      xInt == To(x.ret, "int")
  IN  IF x.fault # NoFault THEN Throw(node, x.fault)
      ELSE IF xInt.fault # NoFault THEN Throw(node, xInt.fault)
      ELSE Return(node, [output EXCEPT !.x = xInt.ret, !.y = xInt.ret])

\* FromConfig::operator()(const Node &node, Point &point):
\*   point.x = node["x"].To<int>();  point.y = node["y"].To<int>();
FromConfig(node, output) ==
  LET x == ConstSubscript(node, "x")
      xInt == To(x.ret, "int")
      y == ConstSubscript(node, "y")
      yInt == To(y.ret, "int")
  IN  IF x.fault # NoFault THEN Throw(node, x.fault)
      ELSE IF xInt.fault # NoFault THEN Throw(node, xInt.fault)
      ELSE IF y.fault # NoFault THEN Throw(node, y.fault)
      ELSE IF yInt.fault # NoFault THEN Throw(node, yInt.fault)
      ELSE Return(node, [output EXCEPT !.x = xInt.ret, !.y = yInt.ret])

\* trait::ConvertToConfig(input, node): overload resolution between the two
\* constrained function templates.  Their constraints are unrelated atomic
\* constraints, so neither overload is more constrained and the call is
\* ambiguous when both hold.  The outcome names the converter that ran.
\* HasExternalToConfigConverter<U> holds when Config::From<U> is specialised
\* with a call operator, HasInternalToConfigConverter<U> when U::ToConfig is
\* such a class.
ConvertToConfig(input, node) ==
  LET viable == Converters(input.point)
      r == ToConfig(input, node)
  IN  IF Cardinality(viable) # 1 THEN Throw(node, IllFormed)
      ELSE IF r.fault # NoFault THEN r
      ELSE Return(r.node, CHOOSE c \in viable : TRUE)

\* trait::ConvertFromConfig(node, output), likewise; the outcome is the
\* output and the converter that filled it.
ConvertFromConfig(node, output) ==
  LET viable == Converters(output.point)
      r == FromConfig(node, output)
  IN  IF Cardinality(viable) # 1 THEN Throw(node, IllFormed)
      ELSE IF r.fault # NoFault THEN r
      ELSE Return(r.node, [value |-> r.ret, by |-> CHOOSE c \in viable : TRUE])

\* Node(const Input &input) : Node() { trait::ConvertToConfig(input, *this); }
\* The constructor takes part in overload resolution only for an Input
\* with a converter (trait::HasToConfigConverter).
ConstructFrom(input) ==
  IF Converters(input.point) = {} THEN Throw(NullNode, IllFormed)
  ELSE ConvertToConfig(input, NullNode)

\* Node &operator=(const Input &input): the converter fills *this as it is.
AssignFrom(n, input) ==
  IF Converters(input.point) = {} THEN Throw(n, IllFormed)
  ELSE ConvertToConfig(input, n)

\* Output Node::To<Output>() const:
\*   Output output;  trait::ConvertFromConfig(*this, output);  return output;
\* The fields of the default-initialised aggregate are indeterminate.
ToOutput(n, U) ==
  IF Converters(U) = {} THEN Throw(n, IllFormed)
  ELSE ConvertFromConfig(n, [point |-> U, x |-> "indeterminate",
                             y |-> "indeterminate"])

\* Node root = ...;  the node a caller holds before it brings a user value
\* in: Null, a scalar, a Sequence, an Object with other keys, an Object
\* that has a field of the converter already.
InitConverter ==
  /\ root \in { NullNode, IntegerNode(1), StringNode("hi"),
                SequenceNode(<< IntegerNode(1) >>),
                ObjectNode([k \in {"a"} |-> IntegerNode(1)]),
                ObjectNode([k \in {"x"} |-> StringNode("hi")]) }
  /\ cur = <<>>
  /\ last = Idle
  /\ prev = root
  /\ pushed = -1
  /\ chain = (IF IsNull(root) THEN "keys" ELSE "other")
  /\ other = NullNode
  /\ copyOf = NoCopy
  /\ file = [path |-> <<>>, content |-> [t |-> "absent"]]
  /\ io = <<>>

\* The call `op(arg)` on the node cur refers to had outcome r; the
\* expression goes on from the reference `next`.
ConverterCall(op, arg, r, next) ==
  /\ last.op = "none"
  /\ root' = Replace(root, cur, r.node)
  /\ prev' = root
  /\ last' = [op |-> op, at |-> cur, arg |-> arg, fault |-> r.fault,
              ret |-> r.ret]
  /\ cur' = IF r.fault = NoFault THEN next ELSE <<>>
  /\ chain' =
       IF r.fault # NoFault \/ next = <<>>
         THEN (IF IsNull(root') THEN "keys" ELSE "other")
       ELSE IF op = "Subscript" /\ chain = "keys" THEN "keys"
       ELSE IF op = "AssignFrom" /\ chain = "keys" THEN "assigned"
       ELSE IF op = "To" THEN chain
       ELSE "other"
  /\ UNCHANGED << pushed, other, copyOf, file, io >>

\* node[field], mutable, on the caller's root.
KeyStep(field) ==
  /\ cur = <<>>
  /\ LET r == Subscript(NodeAt(root, cur), field)
     IN  ConverterCall("Subscript", field, r, Append(cur, r.ret))

\* root = Node(input);
ConstructFromStep(input) ==
  /\ cur = <<>>
  /\ LET r == ConstructFrom(input)
     IN  ConverterCall("ConstructFrom", input,
                       IF r.fault = NoFault THEN r ELSE Throw(root, r.fault),
                       <<>>)

\* node = input;
AssignFromStep(input) ==
  ConverterCall("AssignFrom", input, AssignFrom(NodeAt(root, cur), input),
                cur)

\* node.To<U>();
ToOutputStep(U) ==
  ConverterCall("To", U, ToOutput(NodeAt(root, cur), U), cur)

NextConverter ==
  \/ Resume
  \/ EndStatement
  \/ \E field \in Keys : KeyStep(field)
  \/ \E input \in UserValues : ConstructFromStep(input)
  \/ \E input \in UserValues : AssignFromStep(input)
  \/ \E U \in {input.point : input \in UserValues} : ToOutputStep(U)

SpecConverter == InitConverter /\ [][NextConverter]_vars

(***************************************************************************)
(* Open and Save.  A path is the sequence of its characters; `file` is the *)
(* file the caller's path names and `io` the calls the running Open or     *)
(* Save has made, in order.                                                *)
(***************************************************************************)
OpenError == "OpenError: Undefined format"
SaveError == "SaveError: Undefined format"

\* std::filesystem::path::extension(): the filename from its last dot on;
\* empty when it has no dot, when the dot is its first character, and for
\* the names . and ..
Extension(path) ==
  LET slashes == {i \in DOMAIN path : path[i] = "/"}
      start == IF slashes = {} THEN 1
               ELSE (CHOOSE i \in slashes : \A j \in slashes : j <= i) + 1
      filename == SubSeq(path, start, Len(path))
      dots == {i \in DOMAIN filename : filename[i] = "."}
      dot == CHOOSE i \in dots : \A j \in dots : j <= i
  IN  IF dots = {} \/ dot = 1 \/ filename = << ".", "." >> THEN <<>>
      ELSE SubSeq(filename, dot, Len(filename))

\* The characters of a file as the lexer of `format` reads them: a JSON
\* document is YAML in flow style; of a YAML document the JSON lexer takes
\* the plain scalars that are JSON literals, the double-quoted scalars and
\* the empty flow collections.
RECURSIVE Lexemes(_, _)
Lexemes(format, content) ==
  LET Plain(chars) == [t |-> "plain", chars |-> chars]
      Recode(s, from, to) == [i \in DOMAIN s |-> IF s[i] = from THEN to ELSE s[i]]
      negative == content.chars # <<>> /\ Head(content.chars) = "-"
      unsigned == IF negative THEN Tail(content.chars) ELSE content.chars
      dots == {i \in DOMAIN unsigned : unsigned[i] = "."}
      dot == CHOOSE i \in dots : \A j \in dots : i <= j
      whole == IF dots = {} THEN unsigned ELSE SubSeq(unsigned, 1, dot - 1)
      fraction == IF dots = {} THEN -1
                  ELSE Natural(SubSeq(unsigned, dot + 1, Len(unsigned)))
      literal == /\ Natural(whole) >= 0
                 /\ Len(whole) > 1 => Head(whole) # "0"
                 /\ dots # {} => fraction \in 0 .. 9
  IN  IF format = "Yaml"
        THEN CASE content.t = "null" -> Plain(<< "n", "u", "l", "l" >>)
               [] content.t = "true" -> Plain(<< "t", "r", "u", "e" >>)
               [] content.t = "false" -> Plain(<< "f", "a", "l", "s", "e" >>)
               [] content.t = "number" ->
                    Plain((IF content.negative THEN << "-" >> ELSE <<>>)
                            \o Decimal(content.digits)
                            \o (IF content.fraction < 0 THEN <<>>
                                ELSE << "." >> \o Decimal(content.fraction)))
               [] content.t = "string" ->
                    [t |-> "quoted",
                     chars |-> Recode(content.chars, "\\u0000", "\\x00")]
               [] content.t = "array" ->
                    [t |-> "sequence",
                     items |-> [i \in DOMAIN content.items |->
                                  Lexemes(format, content.items[i])]]
               [] content.t = "object" ->
                    [t |-> "map",
                     members |->
                       [i \in DOMAIN content.members |->
                          [key |-> [t |-> "quoted",
                                    chars |-> Recode(content.members[i].key,
                                                     "\\u0000", "\\x00")],
                           value |-> Lexemes(format,
                                             content.members[i].value)]]]
               [] OTHER -> content
      ELSE CASE content.t = "plain" ->
                  IF content.chars = << "n", "u", "l", "l" >>
                    THEN [t |-> "null"]
                  ELSE IF content.chars = << "t", "r", "u", "e" >>
                    THEN [t |-> "true"]
                  ELSE IF content.chars = << "f", "a", "l", "s", "e" >>
                    THEN [t |-> "false"]
                  ELSE IF literal
                    THEN [t |-> "number", negative |-> negative,
                          digits |-> Natural(whole), fraction |-> fraction]
                  ELSE [t |-> "malformed"]
             [] content.t = "quoted" ->
                  IF \E i \in DOMAIN content.chars : content.chars[i] = "\\x00"
                    THEN [t |-> "malformed"]
                  ELSE [t |-> "string", chars |-> content.chars]
             [] content.t = "sequence" ->
                  IF content.items = <<>> THEN [t |-> "array", items |-> <<>>]
                  ELSE [t |-> "malformed"]
             [] content.t = "map" ->
                  IF content.members = <<>>
                    THEN [t |-> "object", members |-> <<>>]
                  ELSE [t |-> "malformed"]
             [] OTHER -> content

\* OpenFn::operator()(path, format).  File::ReadString(path) returns the
\* characters of the file, which must exist.  The outcome of an Open or
\* Save is the exception that left it, the Node returned, the file
\* afterwards and the calls made.
OpenFormat(path, format, disk) ==
  LET Outcome(fault, node, calls) ==
        [fault |-> fault, node |-> node, ret |-> "none", file |-> disk,
         io |-> calls]
      content == IF disk.content.t = "absent"
                   THEN Throw(NullNode, "File::ReadString failed")
                 ELSE Return(NullNode, disk.content)
      parsed == IF format = "Json" THEN JsonParse(Lexemes(format, content.ret))
                ELSE YamlParse(Lexemes(format, content.ret))
      parser == IF format = "Json" THEN "JsonFormat::Parse"
                ELSE "YamlFormat::Parse"
  IN  IF format \notin Formats THEN Outcome(OpenError, NullNode, <<>>)
      ELSE IF content.fault # NoFault
        THEN Outcome(content.fault, NullNode, << "File::ReadString" >>)
      ELSE Outcome(parsed.fault, parsed.node,
                   << "File::ReadString", parser >>)

\* OpenFn::operator()(path): the format is that of the extension.
Open(path, disk) ==
  IF Extension(path) = << ".", "j", "s", "o", "n" >>
    THEN OpenFormat(path, "Json", disk)
  ELSE IF \/ Extension(path) = << ".", "y", "m", "l" >>
          \/ Extension(path) = << ".", "y", "a", "m", "l" >>
    THEN OpenFormat(path, "Yaml", disk)
  ELSE [fault |-> OpenError, node |-> NullNode, ret |-> "none",
        file |-> disk, io |-> <<>>]

\* Variant: the file is opened for writing before the tree is dumped.
SaveFormatTruncating(path, node, format, disk) ==
  LET Outcome(fault, after, calls) ==
        [fault |-> fault, node |-> node, ret |-> "none", file |-> after,
         io |-> calls]
      text == IF format = "Json" THEN JsonDump(node) ELSE YamlDump(node)
      dumper == IF format = "Json" THEN "JsonFormat::Dump"
                ELSE "YamlFormat::Dump"
  IN  IF format \notin Formats THEN Outcome(SaveError, disk, <<>>)
      ELSE IF text.fault # NoFault
        THEN Outcome(text.fault,
                     [disk EXCEPT !.content = [t |-> "malformed"]],
                     << "File::WriteString", dumper >>)
      ELSE Outcome(NoFault, [disk EXCEPT !.content = text.ret],
                   << "File::WriteString", dumper >>)

\* SaveFn::operator()(path, node, format): the argument Dump(node) is
\* evaluated before File::WriteString is entered.
SaveFormat(path, node, format, disk) ==
  LET Outcome(fault, after, calls) ==
        [fault |-> fault, node |-> node, ret |-> "none", file |-> after,
         io |-> calls]
      text == IF format = "Json" THEN JsonDump(node) ELSE YamlDump(node)
      dumper == IF format = "Json" THEN "JsonFormat::Dump"
                ELSE "YamlFormat::Dump"
  IN  IF format \notin Formats THEN Outcome(SaveError, disk, <<>>)
      ELSE IF text.fault # NoFault
        THEN Outcome(text.fault, disk, << dumper >>)
      ELSE Outcome(NoFault, [disk EXCEPT !.content = text.ret],
                   << dumper, "File::WriteString" >>)

\* Variant: a path without a known extension is saved as JSON.
SaveDefaultingToJson(path, node, disk) ==
  IF \/ Extension(path) = << ".", "y", "m", "l" >>
     \/ Extension(path) = << ".", "y", "a", "m", "l" >>
    THEN SaveFormat(path, node, "Yaml", disk)
  ELSE SaveFormat(path, node, "Json", disk)

\* SaveFn::operator()(path, node).
Save(path, node, disk) ==
  IF Extension(path) = << ".", "j", "s", "o", "n" >>
    THEN SaveFormat(path, node, "Json", disk)
  ELSE IF \/ Extension(path) = << ".", "y", "m", "l" >>
          \/ Extension(path) = << ".", "y", "a", "m", "l" >>
    THEN SaveFormat(path, node, "Yaml", disk)
  ELSE [fault |-> SaveError, node |-> node, ret |-> "none", file |-> disk,
        io |-> <<>>]

\* Node root = ...;  and the file at the path the caller opens and saves:
\* none, a JSON document, a YAML document, or neither.
InitIo ==
  /\ root \in { NullNode, IntegerNode(42), StringNode(<< "h", "i" >>),
                StringNode(<< "xFF" >>),
                SequenceNode(<< IntegerNode(1) >>),
                ObjectNode([k \in {<< "a" >>} |-> StringNode(<< "xFF" >>)]) }
  /\ cur = <<>>
  /\ last = Idle
  /\ prev = root
  /\ pushed = -1
  /\ chain = "other"
  /\ other = NullNode
  /\ copyOf = NoCopy
  /\ file \in
       [path :
          { << "c", ".", "j", "s", "o", "n" >>, << "c", ".", "y", "m", "l" >>,
            << "c", ".", "y", "a", "m", "l" >>,
            << "c", ".", "i", "n", "i" >>, << "c" >>,
            << ".", "j", "s", "o", "n" >>,
            << "c", ".", "J", "S", "O", "N" >>,
            << "d", ".", "j", "s", "o", "n", "/", "c" >>,
            << "c", ".", "y", "m", "l", ".", "j", "s", "o", "n" >> },
        content :
          { [t |-> "absent"], [t |-> "malformed"],
            [t |-> "number", negative |-> FALSE, digits |-> 42,
             fraction |-> -1],
            [t |-> "object",
             members |-> << [key |-> << "a" >>, value |-> [t |-> "true"]] >>],
            [t |-> "plain", chars |-> << "h", "i" >>],
            [t |-> "map",
             members |-> << [key |-> [t |-> "plain", chars |-> << "a" >>],
                             value |-> [t |-> "plain",
                                        chars |-> << "1" >>]] >>] }]
  /\ io = <<>>

\* The Open or Save `op` with the format argument `format` ("deduced" when
\* there is none) had outcome r; an Open leaves its result in root.
IoCall(op, format, r) ==
  /\ last.op = "none"
  /\ root' = (IF r.fault = NoFault THEN r.node ELSE root)
  /\ prev' = root
  /\ last' = [op |-> op, at |-> <<>>,
              arg |-> [path |-> file.path, format |-> format,
                       before |-> file.content],
              fault |-> r.fault, ret |-> r.ret]
  /\ file' = r.file
  /\ io' = r.io
  /\ UNCHANGED << cur, pushed, chain, other, copyOf >>

\* root = Config::Open(path);  root = Config::Open(path, format);
OpenStep(format) ==
  IoCall("Open", format,
         IF format = "deduced" THEN Open(file.path, file)
         ELSE OpenFormat(file.path, format, file))

\* Config::Save(path, root);  Config::Save(path, root, format);
SaveStep(format) ==
  IoCall("Save", format,
         IF format = "deduced" THEN Save(file.path, root, file)
         ELSE SaveFormat(file.path, root, format, file))

\* The format arguments: none, an enumerator, or a value of the enumeration
\* that is none of its enumerators.
NextIo ==
  \/ Resume
  \/ \E format \in {"deduced", "Format(2)"} \cup Formats : OpenStep(format)
  \/ \E format \in {"deduced", "Format(2)"} \cup Formats : SaveStep(format)

SpecIo == InitIo /\ [][NextIo]_vars

(***************************************************************************)
(* Integers at their width.  Node::Integer is std::int64_t (long where     *)
(* long has 64 bits); a value of an integral type is the 64-bit pattern    *)
(* of its sign- or zero-extension, as four 16-bit limbs, most significant  *)
(* first.                                                                  *)
(***************************************************************************)

\* static_cast<I>(v) for the integer v whose extension is `bits`: the low
\* w bits of v, read in the signedness of I.
ConvertIntegral(bits, I) ==
  LET width == IF I \in {"std::int8_t", "std::uint8_t", "char"} THEN 8
               ELSE IF I \in {"std::int16_t", "std::uint16_t"} THEN 16
               ELSE IF I \in {"int", "std::uint32_t"} THEN 32
               ELSE 64
      signed == I \in {"std::int8_t", "char", "std::int16_t", "int",
                       "std::int64_t"}
      ones == Limb - 1
      byte == bits[4] % 256
  IN  IF width = 8
        THEN (IF signed /\ byte >= 128
                THEN << ones, ones, ones, (Limb - 256) + byte >>
              ELSE << 0, 0, 0, byte >>)
      ELSE IF width = 16
        THEN (IF signed /\ bits[4] >= Limb \div 2
                THEN << ones, ones, ones, bits[4] >>
              ELSE << 0, 0, 0, bits[4] >>)
      ELSE IF width = 32
        THEN (IF signed /\ bits[3] >= Limb \div 2
                THEN << ones, ones, bits[3], bits[4] >>
              ELSE << 0, 0, bits[3], bits[4] >>)
      ELSE bits

\* Node(I integer) : value_(Integer(integer)), and operator=(I integer):
\* the argument is converted to Node::Integer.
ConstructInteger(I, integer) ==
  Return(IntegerNode(ConvertIntegral(integer, "std::int64_t")), "Node")

\* JsonFormat::Parse of an integer literal: the parser holds a literal
\* without a sign as number_unsigned (std::uint64_t) and one with a minus
\* sign as number_integer (std::int64_t); ConvertInteger takes either with
\* get<Node::Integer>().
ParseInteger(literal) ==
  LET input == IF literal.minus
                 THEN [type |-> "number_integer",
                       number |-> ConvertIntegral(literal.bits, "std::int64_t")]
               ELSE [type |-> "number_unsigned",
                     number |-> ConvertIntegral(literal.bits, "std::uint64_t")]
  IN  ConstructInteger("std::int64_t",
                       ConvertIntegral(input.number, "std::int64_t"))

\* I To() const for an integral I: return AsInteger(), converted to I by
\* the return statement.
ToInteger(n, I) ==
  LET r == To(n, I)
  IN  IF r.fault # NoFault THEN r ELSE Return(n, ConvertIntegral(r.ret, I))

\* I x = node: the conversion function overload resolution selects among
\* operator Boolean&(), operator Integer&(), operator Floating&(), their
\* const twins and the template operator I() const.  On a Node that is
\* not const the non-const functions bind the object better than any
\* const one, so the template never wins there; among functions that bind
\* alike the one whose result converts best to I wins, a non-template
\* before the template.
ConversionOperator(n, I, const) ==
  LET references == {"bool", "std::int64_t", "double"}
      best == {R \in references :
                 \A Q \in references :
                   ConversionRank(R, I) <= ConversionRank(Q, I)}
      R == CHOOSE R \in best : TRUE
      a == IF R = "bool" THEN "Boolean"
           ELSE IF R = "std::int64_t" THEN "Integer"
           ELSE "Floating"
      r == As(n, a)
  IN  IF const /\ I \notin references THEN ToInteger(n, I)
      ELSE IF Cardinality(best) # 1 THEN Throw(n, IllFormed)
      ELSE IF r.fault # NoFault \/ a # "Integer" THEN r
      ELSE Return(n, ConvertIntegral(r.ret, I))

\* root = Node(integer), integer of type I.
ConstructIntegerStep(I, integer) ==
  /\ last.op = "none"
  /\ CodecCall("ConstructInteger", [T |-> I, value |-> integer],
               ConstructInteger(I, integer))

\* root = JsonFormat::Parse(literal).
ParseIntegerStep(literal) ==
  /\ last.op = "none"
  /\ CodecCall("ParseInteger", literal, ParseInteger(literal))

\* root.To<I>().
ToIntegerStep(I) ==
  /\ last.op = "none"
  /\ CodecCall("ToInteger", [T |-> I], ToInteger(root, I))

\* I x = root;  root a Node or a const Node.
ConversionOperatorStep(I, const) ==
  /\ last.op = "none"
  /\ CodecCall("ConversionOperator", [T |-> I, const |-> const],
               ConversionOperator(root, I, const))

\* The integral types other than bool, and the integers at the edges of
\* their ranges.
NextInteger ==
  LET types == {"std::int8_t", "std::uint8_t", "std::int16_t",
                "std::uint16_t", "int", "std::uint32_t", "std::int64_t",
                "std::uint64_t"}
      ones == Limb - 1
      half == Limb \div 2
      patterns == { << 0, 0, 0, 0 >>, << 0, 0, 0, 42 >>, << 0, 0, 0, 127 >>,
                    << 0, 0, 0, 128 >>, << 0, 0, 0, 255 >>,
                    << 0, 0, 0, 256 >>, << 0, 0, 0, half - 1 >>,
                    << 0, 0, 0, half >>, << 0, 0, 0, ones >>,
                    << 0, 0, 1, 0 >>, << 0, 0, half - 1, ones >>,
                    << 0, 0, half, 0 >>, << 0, 0, ones, ones >>,
                    << 0, 1, 0, 0 >>, << 4660, 22136, 37035, 52719 >>,
                    << half - 1, ones, ones, ones >>, << half, 0, 0, 0 >>,
                    << ones, ones, ones, ones >>,
                    << ones, ones, ones, ones - 127 >>,
                    << ones, ones, ones, half >>,
                    << ones, ones, half, 0 >> }
  IN  \/ Resume
      \/ \E I \in types : \E bits \in patterns :
           ConstructIntegerStep(I, ConvertIntegral(bits, I))
      \/ \E literal \in {l \in [minus : BOOLEAN, bits : patterns] :
                             l.minus => l.bits[1] >= half} :
           ParseIntegerStep(literal)
      \/ \E I \in types : ToIntegerStep(I)
      \/ \E I \in types : \E const \in BOOLEAN :
           ConversionOperatorStep(I, const)

SpecInteger == Init /\ [][NextInteger]_vars

(***************************************************************************)
(* Properties.  Target and After are the node the observed call was made   *)
(* on, before and after it.                                                *)
(***************************************************************************)
Target == NodeAt(prev, last.at)
After == NodeAt(root, last.at)

\* The fault kinds of the error taxonomy, as the exceptions that carry them.
TypeMismatch ==
  {CannotAccessField, CannotPush, NotASequence, ConversionFailed}
IndexOutOfRange == {IndexOutOfBounds}
MissingKey == {StdOutOfRange}

\* Only the node the call was made on may differ between prev and root.
OnlyTargetChanged == root = Replace(prev, last.at, After)

\* C1: a mutable key subscript n[key] turns a Null n into an Object whose
\* only entry is key with a Null child; on an Object it returns the child
\* at key, inserting a Null child when key is absent (Length grows by
\* exactly 1) and leaving every other entry unchanged; on a String, Boolean,
\* Integer, Floating or Sequence it fails with a TypeMismatch fault.
C1_MutableKeySubscript ==
  last.op = "Subscript" =>
    LET key == last.arg
    IN  /\ OnlyTargetChanged
        /\ IsNull(Target) =>
             /\ last.fault = NoFault
             /\ After = ObjectNode([k \in {key} |-> NullNode])
             /\ cur = Append(last.at, [k |-> key])
        /\ IsObject(Target) =>
             /\ last.fault = NoFault
             /\ IsObject(After)
             /\ DOMAIN After.object = DOMAIN Target.object \cup {key}
             /\ \A k \in DOMAIN Target.object :
                  After.object[k] = Target.object[k]
             /\ key \notin DOMAIN Target.object =>
                  /\ After.object[key] = NullNode
                  /\ Cardinality(DOMAIN After.object)
                       = Cardinality(DOMAIN Target.object) + 1
             /\ cur = Append(last.at, [k |-> key])
        /\ Target.type \in {"String", "Boolean", "Integer", "Floating",
                            "Sequence"} =>
             /\ last.fault = CannotAccessField
             /\ last.fault \in TypeMismatch

\* A key was inserted into an Object that already had another entry.
C1_Witness ==
  /\ last.op = "Subscript"
  /\ last.fault = NoFault
  /\ IsObject(Target)
  /\ Target.object # EmptyObject
  /\ last.arg \notin DOMAIN Target.object
  /\ Cardinality(DOMAIN After.object) = 2

\* The Object whose only key Head(path) maps to an Object ... whose only
\* key is the last of path and maps to leaf.
RECURSIVE Nested(_, _)
Nested(path, leaf) ==
  IF path = <<>> THEN leaf
  ELSE ObjectNode([k \in {Head(path).k} |-> Nested(Tail(path), leaf)])

\* C2: from a fresh Null root, root[k1]...[kn] = v through mutable
\* subscripts yields the Object whose only key k1 maps to an Object ...
\* whose only key kn maps to the node for v.
C2_ChainedAutoVivification ==
  /\ chain = "keys" => root = Nested(cur, NullNode)
  /\ (chain = "assigned" /\ last.op = "Assign") =>
       /\ last.fault = NoFault
       /\ root = Nested(last.at, last.arg)

\* root["a"]["b"] = 1 has just run on a fresh root.
C2_Witness ==
  /\ chain = "assigned"
  /\ last.op = "Assign"
  /\ last.at = << [k |-> "a"], [k |-> "b"] >>
  /\ root = ObjectNode([k \in {"a"} |->
                          ObjectNode([j \in {"b"} |-> IntegerNode(1)])])

\* C3: Push(x) turns a Null node into the Sequence <<x>>; on a Sequence of
\* length L the result has length L+1, element L equal to x and elements
\* 0..L-1 unchanged; on a String, Boolean, Integer, Floating or Object it
\* fails with a TypeMismatch fault.
C3_Push ==
  last.op = "Push" =>
    LET x == last.arg
    IN  /\ OnlyTargetChanged
        /\ IsNull(Target) =>
             last.fault = NoFault /\ After = SequenceNode(<< x >>)
        /\ IsSequence(Target) =>
             /\ last.fault = NoFault
             /\ IsSequence(After)
             /\ Len(After.sequence) = Len(Target.sequence) + 1
             /\ After.sequence[Len(Target.sequence) + 1] = x
             /\ \A i \in 1 .. Len(Target.sequence) :
                  After.sequence[i] = Target.sequence[i]
        /\ Target.type \in {"String", "Boolean", "Integer", "Floating",
                            "Object"} =>
             /\ last.fault = CannotPush
             /\ last.fault \in TypeMismatch
             /\ After = Target

\* A second, different element was pushed behind the first.
C3_Witness ==
  /\ last.op = "Push"
  /\ last.fault = NoFault
  /\ IsSequence(Target)
  /\ Len(Target.sequence) = 1
  /\ After.sequence[1] # After.sequence[2]

\* C4: n[index], mutable or read-only, on a Sequence of length L returns
\* element index exactly when 0 <= index < L and otherwise fails with an
\* IndexOutOfRange fault, for every int index; on a non-Sequence it faults.
\* No call that returns has read past the elements.
C4_IndexSubscript ==
  last.op \in {"Index", "ConstIndex"} =>
    LET index == last.arg
    IN  /\ root = prev
        /\ IsSequence(Target) =>
             IF 0 <= index /\ index < Len(Target.sequence)
               THEN /\ last.fault = NoFault
                    /\ last.op = "Index" =>
                         /\ last.ret = [i |-> index]
                         /\ cur = Append(last.at, [i |-> index])
                         /\ NodeAt(root, cur) = Target.sequence[index + 1]
                    /\ last.op = "ConstIndex" =>
                         last.ret = Target.sequence[index + 1]
               ELSE last.fault \in IndexOutOfRange
        /\ ~IsSequence(Target) => last.fault = NotASequence
        /\ last.fault = NoFault =>
             IsSequence(Target) /\ index + 1 \in DOMAIN Target.sequence

\* A negative index was rejected on a non-empty Sequence.
C4_Witness ==
  /\ last.op \in {"Index", "ConstIndex"}
  /\ IsSequence(Target)
  /\ Len(Target.sequence) > 0
  /\ last.arg < 0
  /\ last.fault \in IndexOutOfRange

\* C5: the read-only key subscript on an Object returns the child stored at
\* key when it is present, fails with a MissingKey fault when it is absent,
\* and never inserts the key.
C5_ConstKeySubscript ==
  (last.op = "ConstSubscript" /\ IsObject(Target)) =>
    LET key == last.arg
    IN  /\ root = prev
        /\ key \in DOMAIN Target.object =>
             last.fault = NoFault /\ last.ret = Target.object[key]
        /\ key \notin DOMAIN Target.object =>
             last.fault \in MissingKey

\* An absent key was looked up in a non-empty Object.
C5_Witness ==
  /\ last.op = "ConstSubscript"
  /\ IsObject(Target)
  /\ Target.object # EmptyObject
  /\ last.arg \notin DOMAIN Target.object
  /\ last.fault \in MissingKey
  /\ After = Target

\* C6 as stated: read-only object access on a node that is not an Object
\* raises the MissingKey fault and leaves the node of its variant.
C6_AsStated ==
  (last.op = "ConstSubscript" /\ ~IsObject(Target)) =>
    /\ last.fault \in MissingKey
    /\ After.type = Target.type

\* C6, amended: read-only object access on a node that is not an Object
\* raises the TypeMismatch fault of AsObject() and the node is not
\* auto-vivified: the whole tree is as before.
C6_ConstSubscriptOnNonObject ==
  (last.op = "ConstSubscript" /\ ~IsObject(Target)) =>
    /\ last.fault = ConversionFailed
    /\ last.fault \in TypeMismatch
    /\ After.type = Target.type
    /\ root = prev

\* A key was looked up read-only in a default Null node.
C6_Witness ==
  /\ last.op = "ConstSubscript"
  /\ IsNull(Target)
  /\ last.fault \in TypeMismatch
  /\ IsNull(After)

\* The variant the built-in category of a target type maps to.
VariantFor(T) ==
  CASE T = "std::string" -> "String"
    [] T = "bool" -> "Boolean"
    [] T = "int" -> "Integer"
    [] T = "double" -> "Floating"
    [] T = "Node::Sequence" -> "Sequence"
    [] T = "Node::Object" -> "Object"
    [] OTHER -> "none"

\* C7: As*() and the built-in To<T>() succeed exactly when the node's
\* variant is the requested one and otherwise fail with a TypeMismatch
\* fault; a write through a mutable As*() is what the node holds afterwards.
C7_AsAndTo ==
  /\ last.op = "As" =>
       /\ last.fault = NoFault <=> Target.type = last.arg
       /\ last.fault = NoFault => last.ret = Payload(Target)
       /\ last.fault # NoFault => last.fault \in TypeMismatch
  /\ (last.op = "To" /\ VariantFor(last.arg) # "none") =>
       /\ last.fault = NoFault <=> Target.type = VariantFor(last.arg)
       /\ last.fault = NoFault => last.ret = Payload(Target)
       /\ last.fault # NoFault => last.fault \in TypeMismatch
  /\ last.op = "AsWrite" =>
       /\ last.fault = NoFault <=> Target.type = last.arg.type
       /\ last.fault = NoFault => After = last.arg
       /\ last.fault # NoFault => last.fault \in TypeMismatch /\ root = prev

\* C8: ValueOr<T>(default) returns To<T>() when Is<T>() holds and default
\* otherwise, and never faults.
C8_ValueOr ==
  last.op = "ValueOr" =>
    /\ last.fault = NoFault
    /\ last.ret = IF Is(Target, last.arg.T) THEN Payload(Target)
                  ELSE last.arg.value

\* C9: Contains(key) never faults, is false for every node that is no
\* Object and true for an Object exactly when key is one of its keys; it is
\* true once a mutable n[key] has succeeded and still false after a
\* read-only lookup of an absent key.
C9_Contains ==
  /\ last.op = "Contains" =>
       /\ last.fault = NoFault
       /\ last.ret = (IsObject(Target) /\ last.arg \in DOMAIN Target.object)
       /\ root = prev
  /\ (last.op = "Subscript" /\ last.fault = NoFault) =>
       Contains(After, last.arg) = Return(After, TRUE)
  /\ (last.op = "ConstSubscript"
        /\ Contains(Target, last.arg) = Return(Target, FALSE)) =>
       Contains(After, last.arg) = Return(After, FALSE)

\* Contains was asked of a Sequence and answered false.
C9_Witness ==
  /\ last.op = "Contains"
  /\ IsSequence(Target)
  /\ last.fault = NoFault
  /\ last.ret = FALSE

\* C10: Length() never faults and is the number of elements of a Sequence,
\* the number of keys of an Object and 0 for every other variant; on a
\* Sequence vivified by Push it is the number of successful pushes.
C10_Length ==
  /\ last.op = "Length" =>
       /\ last.fault = NoFault
       /\ last.ret = (CASE IsSequence(Target) -> Len(Target.sequence)
                        [] IsObject(Target) -> Cardinality(DOMAIN Target.object)
                        [] OTHER -> 0)
       /\ root = prev
  /\ pushed >= 0 => Length(root) = Return(root, pushed)

\* Length() answered 2 on a root that was vivified and pushed to twice.
C10_Witness ==
  /\ last.op = "Length"
  /\ last.at = <<>>
  /\ pushed = 2
  /\ last.ret = 2

\* enum class NodeType.
NodeTypes ==
  {"Null", "String", "Boolean", "Integer", "Floating", "Sequence", "Object"}

\* The Is*() queries that answer true on n, each named by its variant.
HeldVariants(n) ==
  {v \in NodeTypes :
     CASE v = "Null" -> IsNull(n)
       [] v = "String" -> IsString(n)
       [] v = "Boolean" -> IsBoolean(n)
       [] v = "Integer" -> IsInteger(n)
       [] v = "Floating" -> IsFloating(n)
       [] v = "Sequence" -> IsSequence(n)
       [] v = "Object" -> IsObject(n)}

\* n and every descendant of n.
RECURSIVE NodesOf(_)
NodesOf(n) ==
  {n} \cup
    (IF IsSequence(n)
       THEN UNION {NodesOf(n.sequence[i]) : i \in DOMAIN n.sequence}
     ELSE IF IsObject(n)
       THEN UNION {NodesOf(n.object[k]) : k \in DOMAIN n.object}
     ELSE {})

\* C11: a default-constructed Node is Null, and in every reachable state,
\* after failed calls too, every Node of the tree holds exactly one of the
\* seven variants: exactly one of IsNull .. IsObject is true and Type()
\* returns that variant without a fault.
C11_ExactlyOneVariant ==
  /\ IsNull(root)
  /\ [](/\ \A n \in NodesOf(root) \cup {NodeAt(root, cur)} :
            /\ Cardinality(HeldVariants(n)) = 1
            /\ Type(n).fault = NoFault
            /\ HeldVariants(n) = {Type(n).ret}
        /\ last.op = "Type" =>
             /\ last.fault = NoFault
             /\ HeldVariants(Target) = {last.ret}
             /\ root = prev)

\* Type() answered Floating on an element of a Sequence.
C11_Witness ==
  /\ last.op = "Type"
  /\ last.at # <<>>
  /\ last.ret = "Floating"
  /\ IsSequence(root)

\* C13: assignment from a built-in value (string-like, bool, integral,
\* floating, Sequence, Object) never faults and replaces the whole node:
\* afterwards the node equals a Node freshly constructed from that value,
\* whatever it held before, and nothing else in the tree has changed.
C13_AssignBuiltin ==
  last.op = "AssignBuiltin" =>
    /\ last.fault = NoFault
    /\ After = Construct(last.arg.T, last.arg.value)
    /\ OnlyTargetChanged

\* The variant the category of a type maps to: string-like to String, bool
\* to Boolean, any other integral type to Integer, floating to Floating,
\* sequence-of-Node to Sequence, string-keyed-map-of-Node to Object.
CategoryOf(T) ==
  IF T \in {"std::string", "std::string_view", "const char*"} THEN "String"
  ELSE IF T = "bool" THEN "Boolean"
  ELSE IF T \in {"char", "int", "std::int64_t", "std::uint64_t"} THEN "Integer"
  ELSE IF T \in {"float", "double"} THEN "Floating"
  ELSE IF T = "Node::Sequence" THEN "Sequence"
  ELSE IF T = "Node::Object" THEN "Object"
  ELSE "none"

\* C14: Is<T>() is true exactly when the variant that the category of T
\* maps to is the node's current variant (bool is Boolean, not Integer) and
\* false for every T with no mapping, user types with custom converters
\* included; so ValueOr<U>(d) returns d for such a type U on every node.
C14_IsAndValueOr ==
  /\ last.op = "Is" =>
       /\ last.fault = NoFault
       /\ last.ret = (CategoryOf(last.arg) = Target.type)
       /\ root = prev
  /\ (last.op = "ValueOr" /\ CategoryOf(last.arg.T) = "none") =>
       /\ last.fault = NoFault
       /\ last.ret = last.arg.value
       /\ root = prev

RECURSIVE JsonCorresponds(_, _)
JsonCorresponds(node, json) ==
  CASE json.type = "null" -> IsNull(node)
    [] json.type = "string" -> node = StringNode(json.string)
    [] json.type = "boolean" -> node = BooleanNode(json.boolean)
    [] json.type \in {"number_integer", "number_unsigned"} ->
         node = IntegerNode(json.number)
    [] json.type = "number_float" -> node = FloatingNode(json.number)
    [] json.type = "array" ->
         /\ IsSequence(node)
         /\ Len(node.sequence) = Len(json.array)
         /\ \A i \in DOMAIN json.array :
              JsonCorresponds(node.sequence[i], json.array[i])
    [] json.type = "object" ->
         /\ IsObject(node)
         /\ DOMAIN node.object = DOMAIN json.object
         /\ \A field \in DOMAIN json.object :
              JsonCorresponds(node.object[field], json.object[field])

\* C15: JSON round trip.  For every tree n of the seven variants, empty
\* Sequences, empty Objects and Objects with arbitrary string keys
\* included, JsonFormat::Dump(n) returns a document and
\* JsonFormat::Parse of that document returns a tree equal to n.
C15_JsonRoundTrip ==
  /\ (last.op = "Dump" /\ last.arg = "Json") => last.fault = NoFault
  /\ (last.op = "ParseBack" /\ last.arg = "Json") =>
       /\ last.fault = NoFault
       /\ root = prev

\* C16: JsonFormat::Parse of a well-formed document returns the Node that
\* corresponds to its JSON value, recursively: null a Null, a string a
\* String, a boolean a Boolean, an integer number an Integer, another
\* number a Floating, every array (the empty one too) a Sequence of the
\* same length and order, every object (the empty one too) an Object with
\* the same key set.
C16_JsonParseMapping ==
  (/\ last.op = "Parse"
   /\ last.arg.format = "Json"
   /\ JsonValue(last.arg.document).type # "parse_error") =>
    /\ last.fault = NoFault
    /\ JsonCorresponds(root, JsonValue(last.arg.document))


\* The node the claim names for a plain scalar: Integer for an integer
\* literal, else Floating for a floating-point literal, else Boolean for a
\* boolean token, else String.
Resolved(chars) ==
  LET scalar == [type |-> "Scalar", scalar |-> chars]
  IN  IF YamlAs(scalar, "Integer").ok
        THEN IntegerNode(YamlAs(scalar, "Integer").value)
      ELSE IF YamlAs(scalar, "Floating").ok
        THEN FloatingNode(YamlAs(scalar, "Floating").value)
      ELSE IF YamlAs(scalar, "Boolean").ok
        THEN BooleanNode(YamlAs(scalar, "Boolean").value)
      ELSE StringNode(chars)

\* C17: YAML scalar resolution.  YamlFormat::Parse of a plain scalar that
\* is not null returns an Integer when the scalar is an integer literal,
\* else a Floating when it is a floating-point literal, else a Boolean
\* when it is a boolean token, else a String; and of a map whose only
\* value is a sequence of plain scalars, an Object holding the Sequence of
\* the nodes so resolved (ports: [8080, 8081] gives two Integers).
C17_YamlScalarResolution ==
  (last.op = "Parse" /\ last.arg.format = "Yaml") =>
    LET document == last.arg.document
        scalars == document.members[1].value.items
    IN  /\ (document.t = "plain" /\ document.chars \notin NullStrings) =>
             /\ last.fault = NoFault
             /\ root = Resolved(document.chars)
        /\ (/\ document.t = "map"
            /\ Len(document.members) = 1
            /\ document.members[1].value.t = "sequence"
            /\ scalars # <<>>
            /\ \A i \in DOMAIN scalars : scalars[i].t = "plain") =>
             /\ last.fault = NoFault
             /\ IsObject(root)
             /\ \E field \in DOMAIN root.object :
                  root.object[field] =
                    SequenceNode([i \in DOMAIN scalars |->
                                    Resolved(scalars[i].chars)])

\* C18: YAML round trip.  For every tree n of the seven variants,
\* YamlFormat::Dump(n) returns a document and YamlFormat::Parse of that
\* document returns a tree equal to n; an Integer, a Floating and a
\* Boolean come back with their variant.
C18_YamlRoundTrip ==
  /\ (last.op = "Dump" /\ last.arg = "Yaml") => last.fault = NoFault
  /\ (last.op = "ParseBack" /\ last.arg = "Yaml") =>
       /\ last.fault = NoFault
       /\ root = prev

\* Whether `node` has the structure the claim names for the YAML::Node
\* `yaml`: scalars are left to the scalar resolution.
RECURSIVE YamlCorresponds(_, _)
YamlCorresponds(node, yaml) ==
  LET Key(i) == YamlAs(yaml.map[i].key, "String").value
      Last(i) == \A j \in DOMAIN yaml.map : Key(j) = Key(i) => j <= i
  IN  CASE yaml.type = "Null" -> IsNull(node)
        [] yaml.type = "Scalar" -> TRUE
        [] yaml.type = "Sequence" ->
             /\ IsSequence(node)
             /\ Len(node.sequence) = Len(yaml.sequence)
             /\ \A i \in DOMAIN yaml.sequence :
                  YamlCorresponds(node.sequence[i], yaml.sequence[i])
        [] yaml.type = "Map" ->
             /\ IsObject(node)
             /\ DOMAIN node.object = {Key(i) : i \in DOMAIN yaml.map}
             /\ \A i \in DOMAIN yaml.map :
                  Last(i) =>
                    YamlCorresponds(node.object[Key(i)], yaml.map[i].value)

\* C19: the Node YamlFormat::Parse returns for a document has the
\* structure of the document, recursively: Null for a null, a Sequence of
\* the same length and order for every sequence (the empty [] too), an
\* Object with the same key set for every map (the empty {} too).
C19_YamlStructure ==
  (/\ last.op = "Parse"
   /\ last.arg.format = "Yaml"
   /\ last.fault = NoFault) =>
    YamlCorresponds(root, YamlLoad(last.arg.document))

\* The exceptions that are a Config::Error: NodeError, and the ParseError
\* of each format.
ConfigErrors ==
  TypeMismatch \cup IndexOutOfRange
    \cup {UndeterminedType, ParseError("Json"), ParseError("Yaml")}

\* C20: every exception that leaves a call on a Node (accessors,
\* subscripts, Push, To, ValueOr) is a Config::Error or of a type derived
\* from it; none is of another type, such as std::out_of_range.
C20_OnlyConfigErrors ==
  last.fault \notin {NoFault, IllFormed} => last.fault \in ConfigErrors

\* The values of the type that nests its converter pair.
PointValues == {u \in UserValues : u.point = "Point"}

\* C21: a Point goes through its internal converter pair unchanged:
\* To<Point>() on a node equal to Node(u) returns u without a fault, and
\* `node = u` on a freshly inserted (Null) node leaves that node equal to
\* Node(u), so that node[key].To<Point>() after `node[key] = u` is u too.
C21_ConverterRoundTrip ==
  /\ /\ last.op = "To"
     /\ last.arg = "Point"
     /\ \E u \in PointValues : Target = ConstructFrom(u).node
     => /\ last.fault = NoFault
        /\ \A u \in PointValues :
             Target = ConstructFrom(u).node => last.ret.value = u
  /\ /\ last.op \in {"ConstructFrom", "AssignFrom"}
     /\ last.arg.point = "Point"
     /\ last.op = "AssignFrom" => IsNull(Target)
     => /\ last.fault = NoFault
        /\ After = ConstructFrom(last.arg).node
        /\ ToOutput(After, "Point").ret.value = last.arg

\* `(node[key] = u).To<Point>()` on a fresh node has returned u, whose
\* fields differ.
C21_Witness ==
  /\ last.op = "To"
  /\ last.arg = "Point"
  /\ chain = "assigned"
  /\ Len(last.at) = 1
  /\ last.fault = NoFault
  /\ last.ret.value \in PointValues
  /\ last.ret.value.x # last.ret.value.y
  /\ After = ConstructFrom(last.ret.value).node

\* The converter a conversion of U selects when the internal one comes
\* first.
InternalFirst(U) ==
  IF "Internal" \in Converters(U) THEN "Internal" ELSE "External"

\* C22: a conversion of a user type that declares a converter is made by
\* the internal converter when the type has one, else by the external one,
\* in both directions: it is never rejected for having both.
C22_ConverterLookupOrder ==
  /\ /\ last.op \in {"ConstructFrom", "AssignFrom"}
     /\ Converters(last.arg.point) # {}
     => /\ last.fault # IllFormed
        /\ last.fault = NoFault => last.ret = InternalFirst(last.arg.point)
  /\ /\ last.op = "To"
     /\ Converters(last.arg) # {}
     => /\ last.fault # IllFormed
        /\ last.fault = NoFault => last.ret.by = InternalFirst(last.arg)

\* C25: `node = u` for a Point u succeeds on a node of any prior state and
\* leaves it equal to Node(u).
C25_AssignFromReplaces ==
  /\ last.op = "AssignFrom"
  /\ last.arg.point = "Point"
  => /\ last.fault = NoFault
     /\ After = ConstructFrom(last.arg).node

\* The codec calls among the calls of the latest Open or Save.
CodecCalls ==
  {io[i] : i \in DOMAIN io} \ {"File::ReadString", "File::WriteString"}

\* C23: Open(path) and Save(path, node) use the JSON codec exactly when the
\* extension of the path is .json and the YAML codec exactly when it is
\* .yml or .yaml, whatever the file holds; for every other path they raise
\* OpenError / SaveError without a file read or write, and the file is as
\* it was.
C23_FormatByExtension ==
  LET path == last.arg.path
      json == { << "c", ".", "j", "s", "o", "n" >>,
                << "c", ".", "y", "m", "l", ".", "j", "s", "o", "n" >> }
      yaml == { << "c", ".", "y", "m", "l" >>,
                << "c", ".", "y", "a", "m", "l" >> }
      undefined == IF last.op = "Open" THEN OpenError ELSE SaveError
      codec == IF last.op = "Open" THEN "Parse" ELSE "Dump"
      Uses(format) ==
        /\ last.fault # undefined
        /\ io # <<>>
        /\ CodecCalls \subseteq
             {IF format = "Json"
                THEN (IF codec = "Parse" THEN "JsonFormat::Parse"
                      ELSE "JsonFormat::Dump")
              ELSE (IF codec = "Parse" THEN "YamlFormat::Parse"
                    ELSE "YamlFormat::Dump")}
        /\ CodecCalls = {} => last.fault = "File::ReadString failed"
  IN  /\ last.op \in {"Open", "Save"}
      /\ last.arg.format = "deduced"
      => /\ path \in json => Uses("Json")
         /\ path \in yaml => Uses("Yaml")
         /\ path \notin json \cup yaml =>
              /\ last.fault = undefined
              /\ io = <<>>
              /\ file.content = last.arg.before

\* Open(path) of a .yml file that holds a JSON object has read it with the
\* YAML codec.
C23_Witness ==
  /\ last.op = "Open"
  /\ last.arg.format = "deduced"
  /\ last.arg.path = << "c", ".", "y", "m", "l" >>
  /\ last.arg.before.t = "object"
  /\ last.fault = NoFault
  /\ io = << "File::ReadString", "YamlFormat::Parse" >>
  /\ IsObject(root)

\* C30: Save dumps the tree before it writes: a Save that ends in a
\* DumpError or a SaveError has made no write and the file is as it was,
\* and every write comes after a Dump; Open reads the file before it
\* parses, and an Open that ends in a ParseError hands no Node to the
\* caller.
C30_SaveOrdering ==
  LET Before(first, second) ==
        \A i \in DOMAIN io :
          io[i] \in second => \E j \in 1 .. i - 1 : io[j] \in first
  IN  /\ last.op = "Save" =>
           /\ last.fault \in {DumpError("Json"), DumpError("Yaml"), SaveError}
                => /\ \A i \in DOMAIN io : io[i] # "File::WriteString"
                   /\ file.content = last.arg.before
           /\ Before({"JsonFormat::Dump", "YamlFormat::Dump"},
                     {"File::WriteString"})
      /\ last.op = "Open" =>
           /\ Before({"File::ReadString"},
                     {"JsonFormat::Parse", "YamlFormat::Parse"})
           /\ last.fault \in {ParseError("Json"), ParseError("Yaml")}
                => root = prev

\* A Save over an existing file has ended in a DumpError.
C30_Witness ==
  /\ last.op = "Save"
  /\ last.fault = DumpError("Json")
  /\ last.arg.before.t = "object"
  /\ io = << "JsonFormat::Dump" >>
  /\ file.content = last.arg.before

\* C24: a call that faults leaves the tree as it was: after a faulting
\* mutable or read-only subscript, Push, As or To, the node the call was
\* made on and the whole tree around it have the value they had before
\* the call.
C24_UnchangedOnFault ==
  /\ last.op \in {"Subscript", "ConstSubscript", "Index", "ConstIndex", "Push",
                  "As", "AsWrite", "To"}
  /\ last.fault # NoFault
  => /\ After = Target
     /\ root = prev

\* A mutable key subscript on a Sequence that has an element has faulted.
C24_Witness ==
  /\ last.op = "Subscript"
  /\ last.fault = CannotAccessField
  /\ IsSequence(Target)
  /\ Len(Target.sequence) > 0
  /\ root = prev

\* C27: Push(x) with x the receiver itself or one of its elements appends
\* a copy of x as it was before the call: a Null or Sequence receiver of
\* length L becomes a Sequence of length L + 1 whose first L elements are
\* the old ones and whose last element is the old x.
C27_PushAliased ==
  LET old == IF IsNull(Target) THEN <<>> ELSE Target.sequence
  IN  /\ last.op = "PushSelf"
      /\ IsNull(Target) \/ IsSequence(Target)
      => /\ last.fault = NoFault
         /\ IsSequence(After)
         /\ After.sequence = Append(old, NodeAt(Target, last.arg))

\* The number a value of integral type I denotes, as its 64-bit pattern
\* and whether it lies below zero.
NumberOf(bits, I) ==
  [bits |-> bits,
   minus |-> /\ I \in {"std::int8_t", "char", "std::int16_t", "int",
                       "std::int64_t"}
             /\ bits[1] >= Limb \div 2]

\* C28: an integer on its way in keeps its value: after a Node has been
\* constructed from (or assigned) a value of an integral type, or parsed
\* from a JSON integer literal between -2^63 and 2^64 - 1, it is an
\* Integer whose stored number equals the number given; a value above
\* 2^63 - 1 is in particular not stored as a negative number.
C28_IntegerPreserved ==
  LET given == IF last.op = "ParseInteger" THEN last.arg
               ELSE NumberOf(last.arg.value, last.arg.T)
  IN  last.op \in {"ConstructInteger", "ParseInteger"}
      => /\ last.fault = NoFault
         /\ IsInteger(root)
         /\ NumberOf(root.integer, "std::int64_t") = given

\* C29: To<I>() and the implicit conversion to I, for an integral type I
\* of w bits and an Integer node, never fault, and give the stored value
\* reduced modulo 2^w, read in the signedness of I: the result has the low
\* w bits of the stored value and is a value of I.
C29_IntegerNarrowing ==
  LET I == last.arg.T
      w == IF I \in {"std::int8_t", "std::uint8_t"} THEN 8
           ELSE IF I \in {"std::int16_t", "std::uint16_t"} THEN 16
           ELSE IF I \in {"int", "std::uint32_t"} THEN 32
           ELSE 64
      Low(bits) == IF w = 8 THEN << bits[4] % 256 >>
                   ELSE IF w = 16 THEN << bits[4] >>
                   ELSE IF w = 32 THEN << bits[3], bits[4] >>
                   ELSE bits
      top == Low(last.ret)[1] >= (IF w = 8 THEN 128 ELSE Limb \div 2)
      fill == IF NumberOf(<< Limb - 1 >>, I).minus /\ top THEN Limb - 1 ELSE 0
      High(bits) == IF w = 8 THEN << bits[1], bits[2], bits[3],
                                     bits[4] \div 256 >>
                    ELSE SubSeq(bits, 1, 4 - (w \div 16))
  IN  /\ last.op \in {"ToInteger", "ConversionOperator"}
      /\ IsInteger(Target)
      => /\ last.fault = NoFault
         /\ Low(last.ret) = Low(Target.integer)
         /\ \A i \in DOMAIN High(last.ret) :
              High(last.ret)[i] = (IF w = 8 /\ i = 4 THEN fill % 256 ELSE fill)

\* C26: key identity.  A subscript with a const char *, a std::string or
\* a std::string_view, mutable or read-only, addresses the child whose key
\* is the character sequence given, at its full length: the mutable one
\* leaves an Object that has that key and, besides it, the entries it had;
\* the read-only one returns the child under that key, or faults with
\* std::out_of_range when the Object has no such key.  And an object a
\* codec parses has one entry for each of the document's keys.
C26_KeyIdentity ==
  LET field == last.arg.field
      old == IF IsNull(prev) THEN EmptyObject ELSE prev.object
  IN  /\ (/\ last.op = "StringSubscript"
          /\ ~last.arg.const
          /\ IsObject(prev) \/ IsNull(prev)) =>
            /\ last.fault = NoFault
            /\ last.ret = [k |-> field]
            /\ IsObject(root)
            /\ DOMAIN root.object = DOMAIN old \cup {field}
            /\ \A k \in DOMAIN old : root.object[k] = old[k]
      /\ (/\ last.op = "StringSubscript"
          /\ last.arg.const
          /\ IsObject(prev)) =>
            /\ root = prev
            /\ IF field \in DOMAIN old
                 THEN last.fault = NoFault /\ last.ret = old[field]
               ELSE last.fault = StdOutOfRange
      /\ (/\ last.op = "Parse"
          /\ last.arg.format = "Json"
          /\ JsonValue(last.arg.document).type = "object") =>
            /\ last.fault = NoFault
            /\ IsObject(root)
            /\ DOMAIN root.object = DOMAIN JsonValue(last.arg.document).object

=============================================================================
